---- MODULE Spec2Model ----
(***************************************************************************)
(* State-machine model of the hybrid spot + futures trading bot:           *)
(*   RiskManager               (modules/risk_manager.py)                   *)
(*   HybridPortfolioStrategy   (modules/hybrid_portfolio_strategy.py)      *)
(*   HybridTradingBotV2        (hybrid_trading_bot_v2.py)                  *)
(*                                                                         *)
(* Units.  Prices are integers in cents, sizes are integers in quarters    *)
(* of a coin, balances and PnL are integers in dollars.  A notional        *)
(* size * price is therefore in 1/400 dollar.    Every comparison of the   *)
(* source between floating point quotients is written cross-multiplied,    *)
(* so it is exact on the values enumerated here.  Timestamps are integers  *)
(* in minutes, read from the clock variable now.                           *)
(***************************************************************************)
EXTENDS Integers, Sequences, FiniteSets, TLC

VARIABLES
    \* ---- RiskManager (risk_manager.py:33-38, 827-832)
    positions,          \* self.positions: symbol -> position record or NoPos
    risk_alerts,        \* self.risk_alerts: the alert queue
    daily_pnl,          \* self.daily_pnl (dollars)
    peak_balance,       \* self.peak_balance (dollars)
    current_drawdown,   \* self.current_drawdown as a fraction [num, den]
    previous_regime,    \* self._previous_regime (getattr default 'neutral')
    \* ---- HybridPortfolioStrategy (hybrid_portfolio_strategy.py:42-44)
    current_positions,  \* self.current_positions[exchange_type][symbol]
    last_rebalance,     \* self.last_rebalance (clock reading)
    \* ---- HybridTradingBotV2 (hybrid_trading_bot_v2.py:41-42) and the
    \* ---- control state of start() / run_trading_cycle()
    running,            \* self.running
    cycle_count,        \* self.cycle_count
    pcStart,            \* position of start()
    pc,                 \* position of run_trading_cycle(), "idle" outside
    activeCycles,       \* number of run_trading_cycle coroutines in progress
    cyc,                \* locals of the cycle in progress
    \* ---- environment and observation
    now,                \* the clock
    reductions,         \* number of automatic reductions applied so far
    lastCall,           \* the operation performed by the last step
    lastReturned,       \* the list the last step returned, if it was get_risk_alerts
    undelivered,        \* alerts appended since the last get_risk_alerts
    \* ---- KoreaComplianceManager (korea_compliance_manager.py:46-48), the
    \* ---- two tasks that call it and the accounts it reads
    pending_transfers,  \* self.pending_transfers: withdraw_id -> record
    pcFunding,          \* position of each task in ensure_usdt_availability
    upbit_usdt,         \* the USDT balance of the Upbit account
    binance_usdt,       \* the free USDT balance of the Binance spot account
    withdrawals         \* the withdrawals Upbit accepted, by withdraw_id

riskVars  == <<positions, risk_alerts, daily_pnl, peak_balance,
               current_drawdown, previous_regime>>
stratVars == <<current_positions, last_rebalance>>
botVars   == <<running, cycle_count, pcStart, pc, activeCycles, cyc>>
obsVars   == <<reductions, lastCall, lastReturned, undelivered>>
fundVars  == <<pending_transfers, pcFunding, upbit_usdt, binance_usdt,
               withdrawals>>
vars      == <<riskVars, stratVars, botVars, now, obsVars, fundVars>>

----------------------------------------------------------------------------
(* Bounds of the model.                                                    *)

MaxReductions == 2      \* automatic reductions explored per behaviour
MaxQueue      == 2      \* alerts the queue holds before it must be read
RiskQueue     == 1      \* the same, in the specifications of the monitor
MaxTicks      == 1      \* clock ticks explored by the risk specifications
TickMinutes   == 1500   \* minutes one clock tick advances
MaxCycles     == 2      \* trading cycles explored per behaviour
MaxWithdrawals == 2     \* withdrawals after which no purchase is started
MaxUpbitUsdt  == 300    \* USDT the Upbit account holds at most

----------------------------------------------------------------------------
(* RiskManager: configuration defaults, risk_manager.py:19-31.             *)

max_position_size_pct      == 20
max_daily_loss_pct         == 5
max_drawdown_pct           == 20
position_timeout_hours     == 24
short_position_limit_pct   == 30

Symbols == {"BTC/USDT", "ETH/USDT"}
Markets == {"spot", "futures"}
Sides   == {"buy", "sell"}
Regimes == {"trending", "ranging", "volatile", "neutral"}

NoPos == [side |-> "none"]

\* the observation of one step: the operation and its arguments, and for the
\* risk monitor the overall level it computed
NoCall == [op |-> "none", symbol |-> "", exchange_type |-> "", level |-> ""]
Call(op, symbol, exchange_type) ==
    [op |-> op, symbol |-> symbol, exchange_type |-> exchange_type,
     level |-> ""]
LevelCall(op, level) ==
    [op |-> op, symbol |-> "", exchange_type |-> "", level |-> level]

\* a call of a function and the value it returned
FunctionCall(op, args) == [op |-> op, args |-> args]

Open(pos, s) == pos[s] # NoPos
OpenSymbols(pos) == {s \in DOMAIN pos : pos[s] # NoPos}

Abs(x) == IF x < 0 THEN -x ELSE x

RECURSIVE SumOver(_, _)
SumOver(S, f) ==
    IF S = {} THEN 0
    ELSE LET x == CHOOSE y \in S : TRUE
         IN  f[x] + SumOver(S \ {x}, f)

\* position['size'] * position['current_price'], in 1/400 dollar
Notional(p) == Abs(p.size * p.current_price)

----------------------------------------------------------------------------
(* add_position / remove_position, risk_manager.py:584-612.  The table is  *)
(* keyed by the symbol alone.                                              *)

PositionKey(symbol, exchange_type) == symbol

NewPosition(side, size, price, exchange_type, stop_loss_price, take_profit_price) ==
    [side |-> side, size |-> size, price |-> price,
     exchange_type |-> exchange_type,
     stop_loss_price |-> stop_loss_price,
     take_profit_price |-> take_profit_price,
     entry_time |-> now, current_price |-> price]

add_position(symbol, side, size, price, exchange_type, stop_loss_price, take_profit_price) ==
    /\ positions' = [positions EXCEPT ![PositionKey(symbol, exchange_type)] =
                        NewPosition(side, size, price, exchange_type,
                                    stop_loss_price, take_profit_price)]
    /\ lastCall' = Call("add_position", symbol, exchange_type)
    /\ lastReturned' = <<>>
    /\ UNCHANGED <<risk_alerts, daily_pnl, peak_balance, current_drawdown,
                   previous_regime, stratVars, botVars, now, reductions,
                   undelivered, fundVars>>

remove_position(symbol) ==
    /\ positions' = [positions EXCEPT ![symbol] = NoPos]
    /\ lastCall' = Call("remove_position", "", "")
    /\ lastReturned' = <<>>
    /\ UNCHANGED <<risk_alerts, daily_pnl, peak_balance, current_drawdown,
                   previous_regime, stratVars, botVars, now, reductions,
                   undelivered, fundVars>>

----------------------------------------------------------------------------
(* update_position_risk and its checks, risk_manager.py:476-561.           *)

\* _should_stop_loss, risk_manager.py:519-534
ShouldStopLoss(p, current_price) ==
    IF p.stop_loss_price = 0 THEN FALSE
    ELSE IF p.side = "buy" THEN current_price <= p.stop_loss_price
    ELSE current_price >= p.stop_loss_price

\* _should_take_profit, risk_manager.py:536-551
ShouldTakeProfit(p, current_price) ==
    IF p.take_profit_price = 0 THEN FALSE
    ELSE IF p.side = "buy" THEN current_price >= p.take_profit_price
    ELSE current_price <= p.take_profit_price

\* _is_position_timeout, risk_manager.py:553-561
IsPositionTimeout(p) == now - p.entry_time > position_timeout_hours * 60

Alert(type, symbol) == [type |-> type, symbol |-> symbol]

\* the alerts one update_position_risk call appends, in the order of the code
NewAlerts(symbol, p, current_price) ==
    (IF ShouldStopLoss(p, current_price)
        THEN <<Alert("stop_loss", symbol)>> ELSE <<>>)
    \o (IF ShouldTakeProfit(p, current_price)
        THEN <<Alert("take_profit", symbol)>> ELSE <<>>)
    \o (IF IsPositionTimeout(p)
        THEN <<Alert("timeout", symbol)>> ELSE <<>>)

\* the queue has room for the alerts of the call (a bound of the model)
QueueRoom(symbol, current_price, cap) ==
    Open(positions, symbol) =>
        Len(risk_alerts)
        + Len(NewAlerts(symbol,
                        [positions[symbol] EXCEPT !.current_price = current_price],
                        current_price)) <= cap

update_position_risk(symbol, current_price) ==
    /\ lastCall' = Call("update_position_risk", "", "")
    /\ lastReturned' = <<>>
    /\ IF ~Open(positions, symbol)
       THEN UNCHANGED <<positions, risk_alerts, undelivered>>
       ELSE LET p   == [positions[symbol] EXCEPT !.current_price = current_price]
                new == NewAlerts(symbol, p, current_price)
            IN  /\ positions' = [positions EXCEPT ![symbol] = p]
                /\ risk_alerts' = risk_alerts \o new
                /\ undelivered' = undelivered \o new
    /\ UNCHANGED <<daily_pnl, peak_balance, current_drawdown, previous_regime,
                   stratVars, botVars, now, reductions, fundVars>>

----------------------------------------------------------------------------
(* get_risk_alerts and emergency_stop, risk_manager.py:614-622, 662-673.   *)

\* self.risk_alerts.clear()
ClearedAlerts_keep(queue) == queue
ClearedAlerts(queue) == <<>>

get_risk_alerts ==
    LET alerts == risk_alerts        \* alerts = self.risk_alerts.copy()
    IN  /\ risk_alerts' = ClearedAlerts(risk_alerts)
        /\ lastReturned' = alerts
        /\ undelivered' = <<>>
        /\ lastCall' = Call("get_risk_alerts", "", "")
        /\ UNCHANGED <<positions, daily_pnl, peak_balance, current_drawdown,
                       previous_regime, stratVars, now, reductions, fundVars>>

emergency_stop ==
    /\ Len(risk_alerts) < MaxQueue
    /\ risk_alerts' = Append(risk_alerts, Alert("emergency_stop", "ALL"))
    /\ undelivered' = Append(undelivered, Alert("emergency_stop", "ALL"))
    /\ lastCall' = Call("emergency_stop", "", "")
    /\ lastReturned' = <<>>
    /\ UNCHANGED <<positions, daily_pnl, peak_balance, current_drawdown,
                   previous_regime, stratVars, botVars, now, reductions, fundVars>>

----------------------------------------------------------------------------
(* real_time_risk_monitoring and its five sub-assessments,                 *)
(* risk_manager.py:675-971.  Like get_risk_alerts and update_positions it  *)
(* is called from the trading cycle, so the bot's own variables are left   *)
(* to the calling step.                                                    *)

\* unrealized_pnl_pct * entry_price, risk_manager.py:735-738 and 1030-1033
PnlNum(p) ==
    IF p.side = "buy" THEN p.current_price - p.price
    ELSE p.price - p.current_price

\* unrealized_pnl_pct > pct / 100
ProfitAbove(p, pct) == PnlNum(p) * 100 > pct * p.price
\* unrealized_pnl_pct < - pct / 100
LossBelow(p, pct) == PnlNum(p) * 100 < (0 - pct) * p.price

\* _update_trailing_stop(position, profit_ratio=0.02), risk_manager.py:991-1019
UpdateTrailingStop(p) ==
    IF p.side = "buy"
    THEN LET new_stop_loss == (p.current_price * 98) \div 100
         IN  IF new_stop_loss > p.stop_loss_price
             THEN [p EXCEPT !.stop_loss_price = new_stop_loss] ELSE p
    ELSE LET new_stop_loss == (p.current_price * 102) \div 100
         IN  IF new_stop_loss < p.stop_loss_price
             THEN [p EXCEPT !.stop_loss_price = new_stop_loss] ELSE p

\* the position table after _monitor_position_risks, risk_manager.py:740-744
TrailedPositions(pos) ==
    [s \in DOMAIN pos |->
        IF pos[s] # NoPos /\ ProfitAbove(pos[s], 5)
        THEN UpdateTrailingStop(pos[s]) ELSE pos[s]]

\* number of position_alerts, risk_manager.py:746-765
PositionAlertCount(pos) ==
    SumOver(OpenSymbols(pos),
            [s \in OpenSymbols(pos) |->
                (IF LossBelow(pos[s], 8) THEN 1 ELSE 0)
              + (IF now - pos[s].entry_time > position_timeout_hours * 60
                 THEN 1 ELSE 0)])

\* risk_level of _monitor_position_risks, risk_manager.py:767-771
PositionRiskLevel(pos) ==
    IF PositionAlertCount(pos) > 2 THEN "high"
    ELSE IF PositionAlertCount(pos) > 0 THEN "medium" ELSE "low"

\* _estimate_correlation in tenths, risk_manager.py:363-378
EstimateCorrelation(symbol1, symbol2) ==
    LET major_coins == {"BTC/USDT", "ETH/USDT"}
    IN  IF symbol1 \in major_coins /\ symbol2 \in major_coins THEN 8
        ELSE IF symbol1 \in major_coins \/ symbol2 \in major_coins THEN 6
        ELSE 4

\* the pairs of positions that lines 789-799 visit
PositionPairs(pos) == {P \in SUBSET OpenSymbols(pos) : Cardinality(P) = 2}
\* lines 789-799: total_correlation_risk in 1/4000 dollar
TotalCorrelationRisk(pos) ==
    LET pairs == PositionPairs(pos)
        weighted(P) ==
            LET a == CHOOSE x \in P : TRUE
                b == CHOOSE y \in P : y # a
            IN  EstimateCorrelation(a, b) * (Notional(pos[a]) + Notional(pos[b]))
    IN  SumOver(pairs, [P \in pairs |-> weighted(P)])

\* _monitor_correlation_risks, risk_manager.py:777-814.  The pairs are
\* position_count, and avg_correlation is the total divided by their number.
CorrelationRiskLevel(pos) ==
    LET open  == OpenSymbols(pos)
        pairs == PositionPairs(pos)
        total == TotalCorrelationRisk(pos)
    IN  IF Cardinality(open) < 2 THEN "low"
        ELSE IF total > 3200 * Cardinality(pairs) THEN "high"
        ELSE IF total > 2400 * Cardinality(pairs) THEN "medium"
        ELSE "low"

\* _detect_regime_changes, risk_manager.py:816-844; current_regime is the
\* value random.choice draws
RegimeRiskLevel(current_regime, previous) ==
    IF current_regime # previous /\ current_regime = "volatile" THEN "high"
    ELSE IF current_regime # previous /\ current_regime = "ranging" THEN "medium"
    ELSE "low"

\* _monitor_liquidity_risks, risk_manager.py:846-878
LiquidityRiskLevel(pos) ==
    IF \E s \in OpenSymbols(pos) : Notional(pos[s]) > 10000 * 400 THEN "high"
    ELSE IF \E s \in OpenSymbols(pos) : Notional(pos[s]) > 5000 * 400
    THEN "medium" ELSE "low"

\* estimated_balance, risk_manager.py:894
estimated_balance == 10000

\* _monitor_leverage_risks, risk_manager.py:880-910
LeverageRiskLevel(pos) ==
    LET total_position_value ==
            SumOver(OpenSymbols(pos),
                    [s \in OpenSymbols(pos) |-> Notional(pos[s])])
    IN  IF total_position_value * 10 > 8 * estimated_balance * 400
        THEN "critical"
        ELSE IF total_position_value * 10 > 6 * estimated_balance * 400
        THEN "medium" ELSE "low"

\* a score table without the entry for critical: the default of
\* risk_scores.get(level, 2) applies to it
RiskScore_no_critical(level) ==
    CASE level = "low" -> 1
      [] level = "medium" -> 2
      [] level = "high" -> 3
      [] OTHER -> 2
\* risk_scores, risk_manager.py:915
RiskScore(level) ==
    CASE level = "low" -> 1
      [] level = "medium" -> 2
      [] level = "high" -> 3
      [] level = "critical" -> 4
      [] OTHER -> 2

\* _calculate_overall_risk_level, risk_manager.py:912-971: the level of the
\* average of the scores of the components
OverallRiskLevel(levels) ==
    LET total_score == SumOver(DOMAIN levels,
                               [i \in DOMAIN levels |-> RiskScore(levels[i])])
        n == Len(levels)
    IN  IF n = 0 THEN "unknown"
        ELSE IF 2 * total_score >= 7 * n THEN "critical"
        ELSE IF 2 * total_score >= 5 * n THEN "high"
        ELSE IF 2 * total_score >= 3 * n THEN "medium"
        ELSE "low"

\* the five component levels in the order of risk_manager.py:702-705
ComponentLevels(pos, current_regime, previous) ==
    <<PositionRiskLevel(pos), CorrelationRiskLevel(pos),
      RegimeRiskLevel(current_regime, previous),
      LiquidityRiskLevel(pos), LeverageRiskLevel(pos)>>

\* _reduce_risky_positions, risk_manager.py:1021-1043; ratio in percent
ReduceRiskyPositions(pos, reduction_ratio) ==
    [s \in DOMAIN pos |->
        IF pos[s] # NoPos /\ LossBelow(pos[s], 5)
        THEN [pos[s] EXCEPT !.size = (pos[s].size * (100 - reduction_ratio)) \div 100]
        ELSE pos[s]]

\* _tighten_stop_losses, risk_manager.py:1045-1062
TightenStopLosses(pos) ==
    [s \in DOMAIN pos |->
        IF pos[s] = NoPos THEN pos[s]
        ELSE IF pos[s].side = "buy"
        THEN [pos[s] EXCEPT !.stop_loss_price = (pos[s].current_price * 97) \div 100]
        ELSE [pos[s] EXCEPT !.stop_loss_price = (pos[s].current_price * 103) \div 100]]

\* a response that cuts the losing positions at both levels
AutomaticResponses_reduce(level, pos) == ReduceRiskyPositions(pos, 50)
\* _execute_automatic_responses, risk_manager.py:973-989
AutomaticResponses(level, pos) ==
    IF level = "critical" THEN ReduceRiskyPositions(pos, 50)
    ELSE IF level = "high" THEN TightenStopLosses(pos)
    ELSE pos

\* the reduction is representable: sizes are integers in quarters
Reducible(pos) ==
    \A s \in OpenSymbols(pos) : LossBelow(pos[s], 5) => pos[s].size % 2 = 0
Reduces(pos) == \E s \in OpenSymbols(pos) : LossBelow(pos[s], 5)

\* the level real_time_risk_monitoring computes: the sub-assessments see
\* the table as _monitor_position_risks left it
MonitoringLevel(pos, current_regime, previous) ==
    OverallRiskLevel(ComponentLevels(TrailedPositions(pos), current_regime,
                                     previous))

\* the position table real_time_risk_monitoring ends with, given the level
MonitoredPositions(pos, level) ==
    IF level \in {"high", "critical"}
    THEN AutomaticResponses(level, TrailedPositions(pos))
    ELSE TrailedPositions(pos)

real_time_risk_monitoring(current_regime) ==
    LET level == MonitoringLevel(positions, current_regime, previous_regime)
        cut   == level = "critical" /\ Reduces(positions)
    IN  /\ cut => reductions < MaxReductions /\ Reducible(positions)
        /\ positions' = MonitoredPositions(positions, level)
        /\ previous_regime' = current_regime
        /\ reductions' = IF cut THEN reductions + 1 ELSE reductions
        /\ lastCall' = LevelCall("real_time_risk_monitoring", level)
        /\ lastReturned' = <<>>
        /\ UNCHANGED <<risk_alerts, daily_pnl, peak_balance, current_drawdown,
                       stratVars, now, undelivered, fundVars>>

\* _execute_automatic_responses called on its own with a risk assessment
execute_automatic_responses(level) ==
    LET cut == level = "critical" /\ Reduces(positions)
    IN  /\ cut => reductions < MaxReductions /\ Reducible(positions)
        /\ positions' = AutomaticResponses(level, positions)
        /\ reductions' = IF cut THEN reductions + 1 ELSE reductions
        /\ lastCall' = LevelCall("_execute_automatic_responses", level)
        /\ lastReturned' = <<>>
        /\ UNCHANGED <<risk_alerts, daily_pnl, peak_balance, current_drawdown,
                       previous_regime, stratVars, botVars, now, undelivered, fundVars>>

----------------------------------------------------------------------------
(* HybridPortfolioStrategy.update_positions / remove_position,             *)
(* hybrid_portfolio_strategy.py:615-631.                                   *)

NoTrade == [success |-> FALSE, order |-> "none"]

StrategyKey(symbol, exchange_type) == <<exchange_type, symbol>>

UpdatedPositions(cur, symbol, exchange_type, position_data) ==
    IF exchange_type \in {"spot", "futures"}
    THEN [cur EXCEPT ![StrategyKey(symbol, exchange_type)[1]]
                      [StrategyKey(symbol, exchange_type)[2]] = position_data]
    ELSE cur

update_positions(symbol, exchange_type, position_data) ==
    /\ current_positions' = UpdatedPositions(current_positions, symbol,
                                             exchange_type, position_data)
    /\ lastCall' = Call("update_positions", symbol, exchange_type)
    /\ lastReturned' = <<>>
    /\ UNCHANGED <<riskVars, last_rebalance, now, reductions, undelivered, fundVars>>

strategy_remove_position(symbol, exchange_type) ==
    /\ current_positions' =
          IF exchange_type \in {"spot", "futures"}
             /\ current_positions[exchange_type][symbol] # NoTrade
          THEN [current_positions EXCEPT ![exchange_type][symbol] = NoTrade]
          ELSE current_positions
    /\ lastCall' = Call("strategy.remove_position", symbol, exchange_type)
    /\ lastReturned' = <<>>
    /\ UNCHANGED <<riskVars, last_rebalance, botVars, now, reductions,
                   undelivered, fundVars>>

----------------------------------------------------------------------------
(* validate_trade, update_daily_pnl, update_drawdown,                      *)
(* risk_manager.py:42-135, 563-582.                                        *)

\* sum of size * price over the open futures shorts, risk_manager.py:107-110
CurrentShortValue(pos) ==
    SumOver({s \in OpenSymbols(pos) : /\ pos[s].side = "sell"
                                      /\ pos[s].exchange_type = "futures"},
            [s \in DOMAIN pos |->
                IF pos[s] = NoPos THEN 0 ELSE pos[s].size * pos[s].price])

\* _validate_short_position: new_short_value <= current_balance * limit
ValidShortPosition(pos, size, price, current_balance) ==
    ~ ((CurrentShortValue(pos) + size * price) * 100
         > current_balance * 400 * short_position_limit_pct)

\* self.daily_pnl < -current_balance * self.max_daily_loss
DailyLossBreached(pnl, current_balance) ==
    pnl * 100 < -(current_balance * max_daily_loss_pct)

\* self.current_drawdown > self.max_drawdown
DrawdownBreached(drawdown) ==
    drawdown.num * 100 > max_drawdown_pct * drawdown.den

\* the is_valid entry of the result of validate_trade
ValidateTrade(pos, pnl, drawdown, side, size, price, current_balance, exchange_type) ==
    /\ ~DailyLossBreached(pnl, current_balance)
    /\ ~DrawdownBreached(drawdown)
    /\ (side = "sell" /\ exchange_type = "futures")
          => ValidShortPosition(pos, size, price, current_balance)

\* update_daily_pnl: self.daily_pnl += realized_pnl
UpdatedDailyPnl(pnl, realized_pnl) == pnl + realized_pnl

\* update_drawdown: the new <<peak_balance, current_drawdown>>; the division
\* by a zero peak raises and the except clause leaves both as they were
UpdatedDrawdown(peak, drawdown, current_balance) ==
    IF current_balance > peak
    THEN <<current_balance, [num |-> 0, den |-> 1]>>
    ELSE IF peak = 0 THEN <<peak, drawdown>>
    ELSE <<peak, [num |-> peak - current_balance, den |-> peak]>>

----------------------------------------------------------------------------
(* check_rebalancing_needed, generate_rebalancing_orders and               *)
(* _generate_initial_purchase_orders, hybrid_portfolio_strategy.py:479-767.*)

spot_allocation_pct        == 40
futures_allocation_pct     == 60
rebalance_threshold_pct    == 3
rebalance_interval_minutes == 15
auto_transfer_enabled      == TRUE

\* abs(balance / total_balance - allocation), in hundredths of total_balance
Deviation(balance, total_balance, allocation_pct) ==
    Abs(balance * 100 - allocation_pct * total_balance)

\* check_rebalancing_needed with the elapsed time compared by >= instead of >
check_rebalancing_needed_inclusive(portfolio_state, last, clock) ==
    LET total_balance   == portfolio_state.total_balance
        spot_deviation  == Deviation(portfolio_state.spot_balance,
                                     total_balance, spot_allocation_pct)
        futures_deviation == Deviation(portfolio_state.futures_balance,
                                       total_balance, futures_allocation_pct)
    IN  IF total_balance <= 100 THEN FALSE
        ELSE \/ /\ \/ spot_deviation > rebalance_threshold_pct * total_balance
                   \/ futures_deviation
                        > rebalance_threshold_pct * total_balance
                /\ total_balance >= 20
             \/ /\ clock - last >= rebalance_interval_minutes
                /\ 2 * spot_deviation > rebalance_threshold_pct * total_balance

check_rebalancing_needed(portfolio_state, last, clock) ==
    LET total_balance   == portfolio_state.total_balance
        spot_deviation  == Deviation(portfolio_state.spot_balance,
                                     total_balance, spot_allocation_pct)
        futures_deviation == Deviation(portfolio_state.futures_balance,
                                       total_balance, futures_allocation_pct)
        adjusted_threshold == IF auto_transfer_enabled
                              THEN rebalance_threshold_pct
                              ELSE rebalance_threshold_pct * 2
        min_balance     == IF auto_transfer_enabled THEN 20 ELSE 200
    IN  IF total_balance <= 100 THEN FALSE
        ELSE \/ /\ \/ spot_deviation > adjusted_threshold * total_balance
                   \/ futures_deviation > adjusted_threshold * total_balance
                /\ total_balance >= min_balance
             \/ /\ clock - last > rebalance_interval_minutes
                /\ 2 * spot_deviation > rebalance_threshold_pct * total_balance

\* 1 / min_quantities[symbol], hybrid_portfolio_strategy.py:640-658
MinQuantityInverse(symbol) ==
    CASE symbol = "BTC/USDT" -> 100000
      [] symbol = "ETH/USDT" -> 10000
      [] symbol \in {"AVAX/USDT", "LINK/USDT", "DOT/USDT"} -> 100
      [] symbol \in {"XRP/USDT", "ADA/USDT", "MATIC/USDT"} -> 10
      [] symbol = "TRX/USDT" -> 1
      [] OTHER -> 1000

\* the decimals the quantity of the symbol is rounded to, lines 678-687
QuantityDecimals(symbol) ==
    CASE symbol = "BTC/USDT" -> 5
      [] symbol \in {"ETH/USDT", "BNB/USDT", "SOL/USDT"} -> 4
      [] symbol \in {"AVAX/USDT", "LINK/USDT", "DOT/USDT"} -> 3
      [] symbol \in {"ADA/USDT", "XRP/USDT", "MATIC/USDT"} -> 2
      [] OTHER -> 3

RECURSIVE PowerOfTen(_)
PowerOfTen(digits) == IF digits = 0 THEN 1 ELSE 10 * PowerOfTen(digits - 1)

\* numerator / denominator to the given number of decimals by long
\* division: quot = floor(numerator * 10^digits / denominator) and rem the
\* remainder of that division
RECURSIVE DecimalDivide(_, _, _)
DecimalDivide(numerator, denominator, digits) ==
    IF digits = 0
    THEN [quot |-> numerator \div denominator, rem |-> numerator % denominator]
    ELSE LET shorter == DecimalDivide(numerator, denominator, digits - 1)
         IN  [quot |-> shorter.quot * 10 + (shorter.rem * 10) \div denominator, rem |-> (shorter.rem * 10) % denominator]

\* round(numerator / denominator, digits) in units of 10^-digits: Python's
\* round goes to the nearest multiple, and to the even one from half way
RoundQuotient(numerator, denominator, digits) ==
    LET d == DecimalDivide(numerator, denominator, digits)
    IN  IF 2 * d.rem > denominator THEN d.quot + 1
        ELSE IF 2 * d.rem = denominator /\ d.quot % 2 = 1 THEN d.quot + 1
        ELSE d.quot

\* _calculate_safe_quantity, lines 633-695, in units of
\* 10^-QuantityDecimals(symbol) of a coin; max_amount and price in cents.
\*   max_quantity < min_quantity  iff  max_amount / price < 1 / inverse
\*                                iff  max_amount < ceil(price / inverse)
\*   calculated_notional = max_quantity * price = max_amount, minimum $5
\*   safe_quantity = max(min_quantity, max_quantity) = max_quantity
calculate_safe_quantity(symbol, max_amount, price) ==
    LET inverse == MinQuantityInverse(symbol)
        ceiling == (price + inverse - 1) \div inverse
    IN  IF price <= 0 \/ max_amount <= 0 THEN 0
        ELSE IF max_amount < ceiling THEN 0
        ELSE IF max_amount < 5 * 100 THEN 0
        ELSE RoundQuotient(max_amount, price, QuantityDecimals(symbol))

\* the quantity in whole quarters of a coin, the unit of the sizes of the
\* orders of a cycle; max_amount in dollars, price in cents
SafeQuarters(symbol, max_amount, price) ==
    (calculate_safe_quantity(symbol, max_amount * 100, price) * 4) \div PowerOfTen(QuantityDecimals(symbol))

Order(strategy, symbol, exchange_type, action, size, confidence) ==
    [strategy |-> strategy, symbol |-> symbol,
     exchange_type |-> exchange_type, action |-> action, size |-> size,
     confidence |-> confidence]

RECURSIVE SpotOrders(_, _, _)
SpotOrders(symbols, per_symbol_amount, current_prices) ==
    IF symbols = <<>> THEN <<>>
    ELSE LET symbol   == Head(symbols)
             quantity == SafeQuarters(symbol, per_symbol_amount,
                                      current_prices[symbol])
             rest     == SpotOrders(Tail(symbols), per_symbol_amount,
                                    current_prices)
         IN  IF /\ current_prices[symbol] > 0
                /\ per_symbol_amount >= 10
                /\ quantity > 0
             THEN <<Order("initial_investment", symbol, "spot", "buy",
                          quantity, 80)>> \o rest
             ELSE rest

generate_initial_purchase_orders(portfolio_state) ==
    LET total_balance == portfolio_state.total_balance
        current_prices == portfolio_state.current_prices
        primary_symbols == <<"BTC/USDT", "ETH/USDT">>
        \* total_balance * (spot_allocation * 0.8) / len(primary_symbols)
        per_symbol_amount ==
            (total_balance * spot_allocation_pct * 8) \div 2000
        \* total_balance * (futures_allocation * 0.3)
        futures_target_investment ==
            (total_balance * futures_allocation_pct * 3) \div 1000
        quantity == SafeQuarters("BTC/USDT", futures_target_investment,
                                 current_prices["BTC/USDT"])
    IN  SpotOrders(primary_symbols, per_symbol_amount, current_prices)
        \o (IF /\ futures_target_investment >= 50
               /\ current_prices["BTC/USDT"] > 0
               /\ quantity > 0
            THEN <<Order("initial_investment", "BTC/USDT", "futures", "buy",
                         quantity, 70)>>
            ELSE <<>>)

\* the orders generate_rebalancing_orders returns
RebalancingOrders(portfolio_state) ==
    LET total_balance == portfolio_state.total_balance
    IN  IF total_balance < 100 THEN <<>>
        ELSE IF /\ \/ portfolio_state.spot_balance > 0
                   \/ portfolio_state.futures_balance > 0
                /\ \/ Deviation(portfolio_state.spot_balance, total_balance,
                                spot_allocation_pct)
                        > rebalance_threshold_pct * total_balance
                   \/ Deviation(portfolio_state.futures_balance,
                                total_balance, futures_allocation_pct)
                        > rebalance_threshold_pct * total_balance
        THEN generate_initial_purchase_orders(portfolio_state)
        ELSE <<>>

\* self.last_rebalance after generate_rebalancing_orders: set to the clock
\* when the order list is not empty, before any of the orders is executed
RebalanceStamp(orders, last, clock) ==
    IF orders # <<>> THEN clock ELSE last

----------------------------------------------------------------------------
(* The clock of the risk specifications.                                   *)

Tick ==
    /\ now + TickMinutes <= MaxTicks * TickMinutes
    /\ now' = now + TickMinutes
    /\ lastCall' = Call("tick", "", "")
    /\ lastReturned' = <<>>
    /\ UNCHANGED <<riskVars, stratVars, botVars, reductions, undelivered, fundVars>>

----------------------------------------------------------------------------
(* The tasks that call the KoreaComplianceManager: run_trading_cycle,      *)
(* hybrid_trading_bot_v2.py:324-327, and start_monitoring, created as a    *)
(* task of its own at lines 889-890.                                       *)

FundingTasks == {"cycle", "monitor"}
\* a task that is not suspended inside auto_purchase_and_transfer
NotPurchasing == [at |-> "idle", target_usdt |-> 0, required_usdt |-> 0]

----------------------------------------------------------------------------
(* Initial state: the state after HybridTradingBotV2.__init__,             *)
(* RiskManager.__init__ and HybridPortfolioStrategy.__init__.              *)

\* the symbols the strategy trades: spot symbols and their futures names,
\* hybrid_portfolio_strategy.py:54-64
FuturesSymbol(symbol) ==
    CASE symbol = "BTC/USDT" -> "BTC/USDT:USDT"
      [] symbol = "ETH/USDT" -> "ETH/USDT:USDT"
      [] OTHER -> symbol
TradedSymbols == Symbols \cup {FuturesSymbol(s) : s \in Symbols}

\* the locals of a cycle as it starts, and what the cycle has done so far:
\*   accepted   the orders validate_trade accepted in this cycle
\*   submitted  the orders passed to _execute_trade in this cycle
\*   failed     the submitted rebalancing orders that did not succeed
\*   executed   (symbol, market) of the signals whose trade succeeded
\*   log        the steps taken, in order
\*   rebalance_before   last_rebalance as the cycle started
\*   raised     a step of run_trading_cycle raised
\*   risk_level risk_monitoring_result['risk_level'] of this cycle
\*   generated  the list generate_portfolio_signals returned in this cycle
EmptyCycle ==
    [market_data |-> <<>>, portfolio |-> "none", orders |-> <<>>,
     signals |-> <<>>, i |-> 0,
     threshold |-> 0, accepted |-> {}, submitted |-> {}, failed |-> {},
     executed |-> {}, log |-> <<>>, rebalance_before |-> 0,
     raised |-> FALSE, risk_level |-> "none", generated |-> <<>>]

Init ==
    /\ positions = [s \in Symbols |-> NoPos]
    /\ risk_alerts = <<>>
    /\ daily_pnl = 0
    /\ peak_balance = 0
    /\ current_drawdown = [num |-> 0, den |-> 1]
    /\ previous_regime = "neutral"
    /\ current_positions = [m \in Markets |-> [s \in TradedSymbols |-> NoTrade]]
    /\ last_rebalance = 0
    /\ running = FALSE
    /\ cycle_count = 0
    /\ pcStart = "init"
    /\ pc = "idle"
    /\ activeCycles = 0
    /\ cyc = EmptyCycle
    /\ now = 0
    /\ reductions = 0
    /\ lastCall = NoCall
    /\ lastReturned = <<>>
    /\ undelivered = <<>>
    /\ pending_transfers = <<>>
    /\ pcFunding = [task \in FundingTasks |-> NotPurchasing]
    /\ upbit_usdt = 0
    /\ binance_usdt = 0
    /\ withdrawals = <<>>

----------------------------------------------------------------------------
(* SpecPositions: the two position tables under add / remove calls.        *)

EntryPrices == {10000}
TradeResults == {[success |-> TRUE, order |-> "o1"],
                 [success |-> TRUE, order |-> "o2"]}

PosAdd ==
    \E s \in Symbols, side \in Sides, m \in Markets, size \in {100, 200},
       price \in EntryPrices :
        add_position(s, side, size, price, m, 0, 0)
PosRemove == \E s \in Symbols : remove_position(s)
StratUpdate ==
    \E s \in Symbols, m \in Markets \cup {"future"}, d \in TradeResults :
        update_positions(s, m, d) /\ UNCHANGED botVars
StratRemove ==
    \E s \in Symbols, m \in Markets \cup {"future"} :
        strategy_remove_position(s, m)

NextPositions == PosAdd \/ PosRemove \/ StratUpdate \/ StratRemove
SpecPositions == Init /\ [][NextPositions]_vars

----------------------------------------------------------------------------
(* SpecRisk: positions, price updates and the real-time risk monitor.      *)

RiskSizes == {480}
UpdatePrices == {9000, 10000, 11000}
\* a protective stop for the side, or none
StopArgs(side) == IF side = "buy" THEN {0, 9500} ELSE {0, 10500}
TakeProfitArgs(side) == IF side = "buy" THEN {0, 11000} ELSE {0, 9000}

RiskAdd ==
    \E s \in Symbols, side \in Sides, size \in RiskSizes,
       price \in EntryPrices :
        \E stop \in StopArgs(side) :
            add_position(s, side, size, price, "spot", stop, 0)
RiskRemove == \E s \in Symbols : remove_position(s)
RiskUpdate ==
    \E s \in Symbols, price \in UpdatePrices :
        QueueRoom(s, price, RiskQueue) /\ update_position_risk(s, price)
RiskMonitor ==
    \E regime \in Regimes :
        real_time_risk_monitoring(regime) /\ UNCHANGED botVars
RiskGet == get_risk_alerts /\ UNCHANGED botVars

NextRisk == RiskAdd \/ RiskRemove \/ RiskUpdate \/ RiskMonitor \/ RiskGet
SpecRisk == Init /\ [][NextRisk]_vars

----------------------------------------------------------------------------
(* SpecResponse: SpecRisk and the automatic responses invoked on their own *)
(* with a risk assessment of level high or critical.                       *)

RespondAdd ==
    \E s \in Symbols, side \in Sides, size \in RiskSizes,
       price \in EntryPrices :
        add_position(s, side, size, price, "spot", 0, 0)
RiskRespond ==
    \E level \in {"high", "critical"} : execute_automatic_responses(level)

NextResponse == RespondAdd \/ RiskUpdate \/ RiskGet \/ RiskRespond
SpecResponse == Init /\ [][NextResponse]_vars

----------------------------------------------------------------------------
(* SpecMonitor: SpecRisk and the automatic responses invoked on their own, *)
(* so that the response to level critical occurs as well.                   *)

MonitorSymbols == {"BTC/USDT"}
MonitorAdd ==
    \E s \in MonitorSymbols, side \in Sides, size \in RiskSizes,
       price \in EntryPrices :
        add_position(s, side, size, price, "spot", 0, 0)
MonitorUpdate ==
    \E s \in MonitorSymbols, price \in UpdatePrices :
        QueueRoom(s, price, RiskQueue) /\ update_position_risk(s, price)

NextMonitor == MonitorAdd \/ MonitorUpdate \/ RiskMonitor \/ RiskRespond
SpecMonitor == Init /\ [][NextMonitor]_vars

----------------------------------------------------------------------------
(* SpecOverall: _calculate_overall_risk_level applied to the five component *)
(* assessments of real_time_risk_monitoring.                                *)

\* the levels a sub-monitor assigns to its assessment
ComponentRiskLevels == {"low", "medium", "high", "critical"}
ComponentCount == 5
OverallInputs == [1..ComponentCount -> ComponentRiskLevels]
OverallCall ==
    \E risk_components \in OverallInputs :
        /\ lastCall' = FunctionCall("_calculate_overall_risk_level", <<risk_components>>)
        /\ lastReturned' = OverallRiskLevel(risk_components)
        /\ UNCHANGED <<riskVars, stratVars, botVars, now, reductions, undelivered, fundVars>>

NextOverall == OverallCall
SpecOverall == Init /\ [][NextOverall]_vars

----------------------------------------------------------------------------
(* SpecSizing: _apply_safety_limits, risk_manager.py:380-405, applied to   *)
(* sizes, balances, prices and configurations drawn from bounded sets.     *)
(* A size is a fraction num/den of a coin, the balance and the price are   *)
(* in dollars, max_position_size and risk_per_trade in percent.            *)

Size(num, den) == [num |-> num, den |-> den]
ZeroSize == Size(0, 1)

\* _apply_safety_limits(calculated_size, current_balance, current_price)
\* under the configuration (max_position_size, risk_per_trade):
\* position_value is computed once, from the size passed in
apply_safety_limits(calculated_size, current_balance, current_price, max_position_size, risk_per_trade) ==
    LET \* position_value > max_position_value
        above_position == calculated_size.num * current_price * 100 > current_balance * max_position_size * calculated_size.den
        \* position_value > max_risk_amount
        above_risk == calculated_size.num * current_price * 100 > current_balance * risk_per_trade * calculated_size.den
        \* position_value < min_position_value
        below_minimum == calculated_size.num * current_price < 10 * calculated_size.den
        capped == IF above_position THEN Size(current_balance * max_position_size, 100 * current_price) ELSE calculated_size
        limited == IF above_risk THEN Size(current_balance * risk_per_trade, 100 * current_price) ELSE capped
    IN  IF current_price = 0 THEN ZeroSize
        ELSE IF below_minimum THEN ZeroSize
        ELSE limited

\* calculated sizes of 0, 0.05, 0.5, 1, 3 and 20 coins
SizingSizes == {Size(n, 100) : n \in {0, 5, 50, 100, 300, 2000}}
SizingBalances == {0, 100, 400, 500, 1000}
SizingPrices == {0, 1, 20, 100}
\* (max_position_size, risk_per_trade): the defaults of lines 19 and 26,
\* and configurations with the risk per trade at or above the position cap
SizingConfigs == {<<20, 2>>, <<20, 20>>, <<2, 20>>, <<10, 5>>}

SafetyLimitsCall ==
    \E calculated_size \in SizingSizes, current_balance \in SizingBalances, current_price \in SizingPrices, config \in SizingConfigs :
        /\ lastCall' = FunctionCall("_apply_safety_limits", <<calculated_size, current_balance, current_price, config[1], config[2]>>)
        /\ lastReturned' = apply_safety_limits(calculated_size, current_balance, current_price, config[1], config[2])
        /\ UNCHANGED <<riskVars, stratVars, botVars, now, reductions, undelivered, fundVars>>

NextSizing == SafetyLimitsCall
SpecSizing == Init /\ [][NextSizing]_vars

----------------------------------------------------------------------------
(* SpecQuantity: _calculate_safe_quantity, hybrid_portfolio_strategy.py:   *)
(* 633-695, applied to symbols, amounts and prices drawn from bounded sets; *)
(* amounts and prices in cents.                                            *)

\* symbols of each precision, and one the tables do not list
QuantitySymbols == {"BTC/USDT", "ETH/USDT", "DOT/USDT", "XRP/USDT", "TRX/USDT", "NEW/USDT"}
\* -$1, $0, $3, $4.99, $5, $5.01, $10 and $100
QuantityAmounts == {-100, 0, 300, 499, 500, 501, 1000, 10000}
\* -$1, $0, $0.30, $7, $100, $30000, $31000 and $50000
QuantityPrices == {-100, 0, 30, 700, 10000, 3000000, 3100000, 5000000}

SafeQuantityCall ==
    \E symbol \in QuantitySymbols, max_amount \in QuantityAmounts, price \in QuantityPrices :
        /\ lastCall' = FunctionCall("_calculate_safe_quantity", <<symbol, max_amount, price>>)
        /\ lastReturned' = calculate_safe_quantity(symbol, max_amount, price)
        /\ UNCHANGED <<riskVars, stratVars, botVars, now, reductions, undelivered, fundVars>>

NextQuantity == SafeQuantityCall
SpecQuantity == Init /\ [][NextQuantity]_vars

----------------------------------------------------------------------------
(* SpecKelly: _calculate_dynamic_kelly, risk_manager.py:269-298, applied   *)
(* to win rates in percent and regime labels drawn from bounded sets.  The *)
(* fraction returned is num/den.                                           *)

\* market_conditions without the key 'regime'
NoRegime == "none"

\* avg_win and avg_loss of the regime in percent, lines 274-282
AverageWin(regime) ==
    CASE regime = "trending" -> 18
      [] regime = "volatile" -> 12
      [] OTHER -> 15
AverageLoss(regime) ==
    CASE regime = "trending" -> 9
      [] regime = "volatile" -> 12
      [] OTHER -> 8

\* line 289: (win_rate * avg_win - (1 - win_rate) * avg_loss) / avg_win
KellyFraction(win_rate, regime) ==
    Size(win_rate * AverageWin(regime) - (100 - win_rate) * AverageLoss(regime), 100 * AverageWin(regime))

\* the fraction of line 289 returned as it is
calculate_dynamic_kelly_raw(win_rate, regime) == KellyFraction(win_rate, regime)
\* _calculate_dynamic_kelly(symbol, win_rate, market_conditions): the
\* fraction clamped by max(0, min(kelly_fraction, 0.25)); the except clause
\* returns 0.02 when market_conditions has no regime
calculate_dynamic_kelly(win_rate, regime) ==
    LET kelly_fraction == KellyFraction(win_rate, regime)
    IN  IF regime = NoRegime THEN Size(2, 100)
        ELSE IF 4 * kelly_fraction.num > kelly_fraction.den THEN Size(25, 100)
        ELSE IF kelly_fraction.num < 0 THEN ZeroSize
        ELSE kelly_fraction

\* win rates of 0 to 1 in steps of 0.01
WinRates == 0..100
KellyRegimes == Regimes \cup {"unknown", NoRegime}

KellyCall ==
    \E win_rate \in WinRates, regime \in KellyRegimes :
        /\ lastCall' = FunctionCall("_calculate_dynamic_kelly", <<win_rate, regime>>)
        /\ lastReturned' = calculate_dynamic_kelly(win_rate, regime)
        /\ UNCHANGED <<riskVars, stratVars, botVars, now, reductions, undelivered, fundVars>>

NextKelly == KellyCall
SpecKelly == Init /\ [][NextKelly]_vars

----------------------------------------------------------------------------
(* SpecAdaptive: adaptive_position_sizing and calculate_position_size,     *)
(* risk_manager.py:177-234, with the helpers of lines 236-415, applied to  *)
(* inputs drawn from bounded sets under the position table that            *)
(* add_position builds.  Signal strengths are in percent, volatilities in  *)
(* thousandths, win rates in percent, the adjustments in tenths; a size is *)
(* a fraction of a coin in lowest terms.                                   *)

risk_per_trade_pct == 2

RECURSIVE GCD(_, _)
GCD(a, b) == IF b = 0 THEN a ELSE GCD(b, a % b)
Reduced(size) ==
    LET g == GCD(size.num, size.den)
    IN  IF g = 0 THEN size ELSE Size(size.num \div g, size.den \div g)
\* size * num / den
Times(size, num, den) == Reduced(Size(size.num * num, size.den * den))
SameSize(a, b) == a.num * b.den = b.num * a.den

\* the outcome of a call that an exception leaves
Raised == [raised |-> TRUE]

\* base_win_rates of lines 240-250 in percent; the model's symbols are two
\* of its keys
BaseWinRate(symbol) ==
    CASE symbol = "BTC/USDT" -> 58
      [] symbol = "ETH/USDT" -> 56
      [] OTHER -> 52

\* _calculate_recent_win_rate(symbol, days), lines 236-267: adjustment is
\* the value random.uniform(-0.05, 0.05) draws, in percent
calculate_recent_win_rate(symbol, adjustment) ==
    LET recent_rate == BaseWinRate(symbol) + adjustment
    IN  IF recent_rate < 30 THEN 30 ELSE IF recent_rate > 80 THEN 80 ELSE recent_rate

\* _calculate_volatility_adjustment, lines 300-315, in tenths
calculate_volatility_adjustment(volatility) ==
    IF volatility > 50 THEN 5
    ELSE IF volatility > 30 THEN 7
    ELSE IF volatility > 10 THEN 10
    ELSE 12

\* _get_regime_multiplier, lines 317-325, in tenths
get_regime_multiplier(regime) ==
    CASE regime = "trending" -> 13
      [] regime = "ranging" -> 8
      [] regime = "volatile" -> 6
      [] OTHER -> 10

\* _calculate_liquidity_adjustment, lines 327-334, in tenths
calculate_liquidity_adjustment(liquidity) ==
    CASE liquidity = "high" -> 11
      [] liquidity = "low" -> 7
      [] OTHER -> 10

\* _calculate_correlation_adjustment, lines 336-361, in tenths;
\* correlation_risk is the sum of correlation * |size * current_price| over
\* the other positions, in 1/4000 dollar
calculate_correlation_adjustment(pos, symbol) ==
    LET others == OpenSymbols(pos) \ {symbol}
        correlation_risk == SumOver(others, [s \in others |-> EstimateCorrelation(symbol, s) * Notional(pos[s])])
    IN  IF correlation_risk > 3200 THEN 5
        ELSE IF correlation_risk > 2400 THEN 7
        ELSE IF correlation_risk > 1200 THEN 9
        ELSE 10

\* the fallback of lines 407-415 without its except clause
fallback_position_size_unguarded(current_balance, current_price) ==
    IF current_price = 0 THEN Raised ELSE Size(current_balance, 100 * current_price)
\* _fallback_position_size, lines 407-415: 1% of the balance divided by the
\* price, and 0.0 when the division raises
fallback_position_size(current_balance, current_price) ==
    LET conservative == fallback_position_size_unguarded(current_balance, current_price)
    IN  IF conservative = Raised THEN ZeroSize ELSE conservative

ConditionKeys == {"volatility", "regime", "liquidity"}
\* market_conditions['regime'] as _calculate_dynamic_kelly reads it
RegimeOf(market_conditions) ==
    IF "regime" \in DOMAIN market_conditions THEN market_conditions["regime"] ELSE NoRegime

\* lines 200-227: the try block of adaptive_position_sizing; reading a key
\* that market_conditions lacks raises KeyError
AdaptiveSize(pos, symbol, signal_strength, current_balance, current_price, market_conditions, adjustment) ==
    LET recent_win_rate == calculate_recent_win_rate(symbol, adjustment)
        dynamic_kelly == calculate_dynamic_kelly(recent_win_rate, RegimeOf(market_conditions))
        base_size == Times(dynamic_kelly, signal_strength, 100)
        volatility_adj == calculate_volatility_adjustment(market_conditions["volatility"])
        regime_multiplier == get_regime_multiplier(market_conditions["regime"])
        liquidity_adj == calculate_liquidity_adjustment(market_conditions["liquidity"])
        correlation_adj == calculate_correlation_adjustment(pos, symbol)
        adjusted_size == Times(Times(Times(Times(base_size, volatility_adj, 10), regime_multiplier, 10), liquidity_adj, 10), correlation_adj, 10)
    IN  IF ConditionKeys \subseteq DOMAIN market_conditions
        THEN apply_safety_limits(adjusted_size, current_balance, current_price, max_position_size_pct, risk_per_trade_pct)
        ELSE Raised

\* adaptive_position_sizing, lines 196-234: the except clause returns the
\* fallback size
adaptive_position_sizing(pos, symbol, signal_strength, current_balance, current_price, market_conditions, adjustment) ==
    LET final_size == AdaptiveSize(pos, symbol, signal_strength, current_balance, current_price, market_conditions, adjustment)
    IN  IF final_size = Raised THEN fallback_position_size(current_balance, current_price)
        ELSE final_size

\* calculate_position_size, lines 177-194
calculate_position_size(pos, symbol, signal_strength, current_balance, current_price, volatility, adjustment) ==
    adaptive_position_sizing(pos, symbol, signal_strength, current_balance, current_price, [volatility |-> volatility, regime |-> "neutral", liquidity |-> "normal"], adjustment)

AdaptiveStrengths == {50, 100}
AdaptiveBalances == {0, 500}
AdaptivePrices == {0, 100}
AdaptiveVolatilities == {20, 60}
AdaptiveRegimes == {"neutral", "volatile", "trending"}
AdaptiveLiquidities == {"normal", "low"}
FullConditions == [volatility : AdaptiveVolatilities, regime : AdaptiveRegimes, liquidity : AdaptiveLiquidities]
Without(market_conditions, key) == [k \in DOMAIN market_conditions \ {key} |-> market_conditions[k]]
\* market_conditions with all three keys or lacking one of them
AdaptiveConditions == FullConditions \cup {Without(mc, key) : mc \in FullConditions, key \in ConditionKeys}
\* values random.uniform(-0.05, 0.05) can draw, in percent
WinRateAdjustments == {-5, 0, 5}

AdaptiveAdd == MonitorAdd
AdaptiveCall ==
    \E symbol \in Symbols, signal_strength \in AdaptiveStrengths, current_balance \in AdaptiveBalances, current_price \in AdaptivePrices :
        \E market_conditions \in AdaptiveConditions, adjustment \in WinRateAdjustments :
            /\ lastCall' = FunctionCall("adaptive_position_sizing", <<symbol, signal_strength, current_balance, current_price, market_conditions>>)
            /\ lastReturned' = adaptive_position_sizing(positions, symbol, signal_strength, current_balance, current_price, market_conditions, adjustment)
            /\ UNCHANGED <<riskVars, stratVars, botVars, now, reductions, undelivered, fundVars>>
PositionSizeCall ==
    \E symbol \in Symbols, signal_strength \in AdaptiveStrengths, current_balance \in AdaptiveBalances, current_price \in AdaptivePrices :
        \E volatility \in AdaptiveVolatilities, adjustment \in WinRateAdjustments :
            /\ lastCall' = FunctionCall("calculate_position_size", <<symbol, signal_strength, current_balance, current_price, volatility>>)
            /\ lastReturned' = calculate_position_size(positions, symbol, signal_strength, current_balance, current_price, volatility, adjustment)
            /\ UNCHANGED <<riskVars, stratVars, botVars, now, reductions, undelivered, fundVars>>

NextAdaptive == AdaptiveAdd \/ AdaptiveCall \/ PositionSizeCall
SpecAdaptive == Init /\ [][NextAdaptive]_vars

----------------------------------------------------------------------------
(* SpecCollect: collect_market_data, hybrid_trading_bot_v2.py:201-227,     *)
(* gathering one _fetch_symbol_data task (lines 229-266) per trading       *)
(* symbol; the tasks finish in any order.                                  *)

\* config.TRADING_SYMBOLS
TradingSymbols == {"BTC/USDT", "ETH/USDT", "BNB/USDT"}
\* what the exchange does for a symbol: it delivers tickers and candles, a
\* call raises, a candle frame is None, or a candle frame is empty
FetchOutcomes == {"data", "raises", "none", "empty"}
NoData == [symbol |-> "None"]

\* _fetch_symbol_data(symbol), lines 229-266: None for missing or empty
\* candles (line 240) and from the except clause (264-266)
fetch_symbol_data(symbol, outcome) ==
    IF outcome = "data" THEN [symbol |-> symbol] ELSE NoData

\* lines 213-220 without the test of line 218
collect_results_all(results) == results
\* lines 213-220: the results that are neither an exception nor empty, by
\* symbol
collect_results(results) ==
    LET kept == {s \in DOMAIN results : results[s] # NoData}
    IN  [s \in kept |-> results[s]]

Gathering == lastCall.op = "collect_market_data" /\ ~lastReturned.returned

\* lines 204-211: one task per symbol
GatherBegin ==
    \E outcomes \in [TradingSymbols -> FetchOutcomes] :
        /\ ~Gathering
        /\ lastCall' = FunctionCall("collect_market_data", <<outcomes>>)
        /\ lastReturned' = [results |-> <<>>, returned |-> FALSE, market_data |-> <<>>]
        /\ UNCHANGED <<riskVars, stratVars, botVars, now, reductions, undelivered, fundVars>>
\* one task runs to its end
FetchSymbolData ==
    /\ Gathering
    /\ \E symbol \in TradingSymbols \ DOMAIN lastReturned.results :
          lastReturned' = [lastReturned EXCEPT !.results = @ @@ (symbol :> fetch_symbol_data(symbol, lastCall.args[1][symbol]))]
    /\ UNCHANGED <<lastCall, riskVars, stratVars, botVars, now, reductions, undelivered, fundVars>>
\* lines 211-224: gather returns when every task has ended
GatherResults ==
    /\ Gathering
    /\ DOMAIN lastReturned.results = TradingSymbols
    /\ lastReturned' = [lastReturned EXCEPT !.returned = TRUE, !.market_data = collect_results(lastReturned.results)]
    /\ UNCHANGED <<lastCall, riskVars, stratVars, botVars, now, reductions, undelivered, fundVars>>

NextCollect == GatherBegin \/ FetchSymbolData \/ GatherResults
SpecCollect == Init /\ [][NextCollect]_vars
\* the event loop runs every task to its end and then resumes the caller
FairCollect == SpecCollect /\ WF_vars(FetchSymbolData) /\ WF_vars(GatherResults)

----------------------------------------------------------------------------
(* SpecOpportunity: analyze_market_opportunity,                            *)
(* hybrid_portfolio_strategy.py:68-203, applied to snapshots drawn from    *)
(* bounded sets.  Prices are in cents, combined signals in hundredths, the *)
(* threshold in ten-thousandths; a premium or a confidence is a fraction.  *)

arbitrage_threshold_bp == 5

\* the value under 'last' of a ticker: a number, None, a value float()
\* rejects, or no such key
Number(n) == [kind |-> "number", value |-> n]
NoneValue == [kind |-> "None", value |-> 0]
TextValue == [kind |-> "text", value |-> 0]
MissingValue == [kind |-> "missing", value |-> 0]

\* lines 83-98: .get('last', 0), None replaced by 0, then both prices
\* converted by float(); when either conversion raises both become 0
PricesOf(data) ==
    IF data.spot_last.kind = "text" \/ data.futures_last.kind = "text" THEN <<0, 0>>
    ELSE <<data.spot_last.value, data.futures_last.value>>

\* line 100 with the test of the futures price left out
HasPrices_spot(data) == PricesOf(data)[1] > 0
\* line 100: the symbol is analysed when both prices are positive
HasPrices(data) == PricesOf(data)[1] > 0 /\ PricesOf(data)[2] > 0

\* lines 107-117 with the comparison >= in place of >
ArbitrageOf_inclusive(symbol, data) ==
    LET spot_price == PricesOf(data)[1]
        futures_price == PricesOf(data)[2]
    IN  IF Abs(futures_price - spot_price) * 10000 >= arbitrage_threshold_bp * spot_price
        THEN <<[symbol |-> symbol, premium |-> Size(futures_price - spot_price, spot_price), opportunity_type |-> IF futures_price > spot_price THEN "long_spot_short_futures" ELSE "short_spot_long_futures", confidence |-> Size(1, 1)]>>
        ELSE <<>>
\* lines 107-117: the arbitrage opportunity of a symbol; ratio is
\* abs(premium) / arbitrage_threshold
ArbitrageOf(symbol, data) ==
    LET spot_price == PricesOf(data)[1]
        futures_price == PricesOf(data)[2]
        ratio == Size(Abs(futures_price - spot_price) * 10000, arbitrage_threshold_bp * spot_price)
    IN  IF Abs(futures_price - spot_price) * 10000 > arbitrage_threshold_bp * spot_price
        THEN <<[symbol |-> symbol, premium |-> Size(futures_price - spot_price, spot_price), opportunity_type |-> IF futures_price > spot_price THEN "long_spot_short_futures" ELSE "short_spot_long_futures", confidence |-> IF ratio.num < ratio.den THEN ratio ELSE Size(1, 1)]>>
        ELSE <<>>

\* lines 120-153: the trend-following opportunity of a symbol
TrendOf(symbol, data) ==
    LET spot_strength == data.spot_strength
        futures_strength == data.futures_strength
    IN  IF /\ Abs(spot_strength) > 10 /\ Abs(futures_strength) > 10
           /\ \/ spot_strength > 0 /\ futures_strength > 0
              \/ spot_strength < 0 /\ futures_strength < 0
        THEN <<[symbol |-> symbol, direction |-> IF spot_strength > 0 THEN "bullish" ELSE "bearish", confidence |-> Size(Abs(spot_strength) + Abs(futures_strength), 200)]>>
        ELSE <<>>

\* current_spot_position.get('side')
SideOf(position) == IF "side" \in DOMAIN position THEN position.side ELSE "None"
\* lines 156-166: the hedging opportunity of a symbol with a spot position
HedgingOf(cur, symbol, data) ==
    LET current_spot_position == IF symbol \in DOMAIN cur["spot"] THEN cur["spot"][symbol] ELSE NoTrade
        futures_strength == data.futures_strength
    IN  IF /\ current_spot_position # NoTrade
           /\ Abs(futures_strength) > 20
           /\ \/ SideOf(current_spot_position) = "buy" /\ futures_strength < -20
              \/ SideOf(current_spot_position) = "sell" /\ futures_strength > 20
        THEN <<[symbol |-> symbol, hedge_type |-> IF SideOf(current_spot_position) = "buy" THEN "protective_short" ELSE "protective_long", confidence |-> Abs(futures_strength)]>>
        ELSE <<>>

\* lines 169-197: the momentum opportunity of a symbol
MomentumOf(symbol, data) ==
    IF \/ data.spot_rsi < 40 /\ data.futures_rsi < 40
       \/ data.spot_rsi > 60 /\ data.futures_rsi > 60
    THEN <<[symbol |-> symbol, type |-> IF data.spot_rsi < 30 THEN "oversold_bounce" ELSE "overbought_correction", spot_rsi |-> data.spot_rsi, futures_rsi |-> data.futures_rsi, confidence |-> Size(Abs(50 - data.spot_rsi), 50)]>>
    ELSE <<>>

\* market_data.keys(): the symbols in the order of config.TRADING_SYMBOLS
SnapshotOrder == <<"BTC/USDT", "ETH/USDT">>
RECURSIVE Flatten(_, _)
Flatten(order, lists) ==
    IF order = <<>> THEN <<>>
    ELSE (IF Head(order) \in DOMAIN lists THEN lists[Head(order)] ELSE <<>>) \o Flatten(Tail(order), lists)

\* analyze_market_opportunity(market_data), lines 68-203, with the
\* strategy's positions cur
analyze_market_opportunity(cur, market_data) ==
    LET analysed == {s \in DOMAIN market_data : HasPrices(market_data[s])}
    IN  [arbitrage |-> Flatten(SnapshotOrder, [s \in analysed |-> ArbitrageOf(s, market_data[s])]),
         trend_following |-> Flatten(SnapshotOrder, [s \in analysed |-> TrendOf(s, market_data[s])]),
         hedging |-> Flatten(SnapshotOrder, [s \in analysed |-> HedgingOf(cur, s, market_data[s])]),
         momentum |-> Flatten(SnapshotOrder, [s \in analysed |-> MomentumOf(s, market_data[s])])]

SymbolData(spot_last, futures_last, strengths, rsi) ==
    [spot_last |-> spot_last, futures_last |-> futures_last, spot_strength |-> strengths[1], futures_strength |-> strengths[2], spot_rsi |-> rsi[1], futures_rsi |-> rsi[2]]
\* futures prices around a spot price of $100: premiums of 0, 0.05%, 0.06%,
\* -0.05%, -0.06% and 1%
FuturesPrices == {10000, 10005, 10006, 9995, 9994, 10100}
BadPrices == {NoneValue, TextValue, MissingValue, Number(0), Number(-100)}
RsiValues == {25, 30, 35, 40, 50, 60, 65, 75}
\* snapshots of a symbol: good and bad prices under agreeing strong signals
\* and a low RSI, every pair of RSI values and pairs of signal strengths
\* under good prices
PriceData ==
    {SymbolData(Number(10000), Number(f), <<50, 50>>, <<25, 25>>) : f \in FuturesPrices}
    \cup {SymbolData(Number(10000), bad, <<50, 50>>, <<25, 25>>) : bad \in BadPrices}
    \cup {SymbolData(bad, Number(10006), <<50, 50>>, <<25, 25>>) : bad \in BadPrices}
RsiData == {SymbolData(Number(10000), Number(10000), <<0, 0>>, <<a, b>>) : a, b \in RsiValues}
StrengthData == {SymbolData(Number(10000), Number(10000), st, <<50, 50>>) : st \in {<<15, 15>>, <<-50, -30>>, <<50, -50>>, <<10, 50>>}}
SymbolInputs == PriceData \cup RsiData \cup StrengthData
OtherInputs ==
    {SymbolData(Number(20000), Number(20020), <<50, 50>>, <<75, 75>>),
     SymbolData(Number(20000), Number(20000), <<0, 0>>, <<35, 35>>),
     SymbolData(Number(20000), TextValue, <<50, 50>>, <<25, 25>>)}
\* snapshots: BTC/USDT alone, ETH/USDT alone, or both
Snapshots ==
    {("BTC/USDT" :> d) : d \in SymbolInputs}
    \cup {("ETH/USDT" :> e) : e \in OtherInputs}
    \cup {("BTC/USDT" :> d) @@ ("ETH/USDT" :> e) : d \in SymbolInputs, e \in OtherInputs}

AnalyzeCall ==
    \E market_data \in Snapshots :
        /\ lastCall' = FunctionCall("analyze_market_opportunity", <<market_data>>)
        /\ lastReturned' = analyze_market_opportunity(current_positions, market_data)
        /\ UNCHANGED <<riskVars, stratVars, botVars, now, reductions, undelivered, fundVars>>

NextOpportunity == AnalyzeCall
SpecOpportunity == Init /\ [][NextOpportunity]_vars

----------------------------------------------------------------------------
(* SpecIndicators: generate_signals, technical_analysis.py:413-524,        *)
(* applied to indicator bundles drawn from bounded sets.  An indicator of  *)
(* the bundle is absent, NaN, or has the last values given; a signal is    *)
(* -1, 0 or 1 and the combined signal a fraction.                          *)

rsi_oversold == 30
rsi_overbought == 70

NaNValue == [kind |-> "NaN", value |-> 0]

\* lines 418-433 with the thresholds included
rsi_signal_inclusive(rsi) ==
    LET rsi_current == IF rsi.kind = "number" THEN rsi.value ELSE 50
    IN  IF rsi.kind = "missing" THEN 0
        ELSE IF rsi_current <= rsi_oversold THEN 1
        ELSE IF rsi_current >= rsi_overbought THEN -1
        ELSE 0
\* lines 418-433: a NaN or a value that is no int or float counts as 50
rsi_signal(rsi) ==
    LET rsi_current == IF rsi.kind = "number" THEN rsi.value ELSE 50
    IN  IF rsi.kind = "missing" THEN 0
        ELSE IF rsi_current < rsi_oversold THEN 1
        ELSE IF rsi_current > rsi_overbought THEN -1
        ELSE 0

\* lines 435-453: the last two values of the MACD histogram
Histogram(kind, hist_current, hist_prev) == [kind |-> kind, hist_current |-> hist_current, hist_prev |-> hist_prev]
macd_signal(macd) ==
    IF macd.kind # "number" THEN 0
    ELSE IF macd.hist_current > 0 /\ macd.hist_prev <= 0 THEN 1
    ELSE IF macd.hist_current < 0 /\ macd.hist_prev >= 0 THEN -1
    ELSE 0

\* lines 455-476: the last values of the bands; current_price is the middle
\* band
Bands(kind, middle, upper, lower) == [kind |-> kind, middle |-> middle, upper |-> upper, lower |-> lower]
bb_signal(bb) ==
    IF bb.kind # "number" THEN 0
    ELSE IF bb.middle <= bb.lower THEN 1
    ELSE IF bb.middle >= bb.upper THEN -1
    ELSE 0

\* lines 478-494
stoch_signal(slowk) ==
    IF slowk.kind # "number" THEN 0
    ELSE IF slowk.value < 20 THEN 1
    ELSE IF slowk.value > 80 THEN -1
    ELSE 0

\* the sum of the signals without the division of line 500
combined_signal_sum(signals) == Size(signals[1] + signals[2] + signals[3] + signals[4], 1)
\* lines 497-502: valid_signals holds the four signals, each of them a float
combined_signal(signals) ==
    LET valid_signals == signals
    IN  IF Len(valid_signals) > 0
        THEN Size(valid_signals[1] + valid_signals[2] + valid_signals[3] + valid_signals[4], Len(valid_signals))
        ELSE ZeroSize

\* generate_signals(indicators), lines 413-524
generate_signals(indicators) ==
    LET signals == <<rsi_signal(indicators.rsi), macd_signal(indicators.macd), bb_signal(indicators.bb), stoch_signal(indicators.stoch)>>
    IN  [rsi_signal |-> signals[1], macd_signal |-> signals[2], bb_signal |-> signals[3], stoch_signal |-> signals[4], combined_signal |-> combined_signal(signals)]

RsiInputs == {MissingValue, NaNValue, TextValue} \cup {Number(n) : n \in {0, 25, 29, 30, 31, 50, 69, 70, 71, 75, 100}}
\* no histogram, a NaN, a crossing up, a crossing down, no crossing
MacdInputs == {Histogram("missing", 0, 0), Histogram("NaN", 0, 0), Histogram("number", 1, 0), Histogram("number", -1, 0), Histogram("number", 1, 1)}
\* no bands, bands around the middle, bands that coincide, bands below the
\* middle
BandInputs == {Bands("missing", 0, 0, 0), Bands("number", 100, 110, 90), Bands("number", 100, 100, 100), Bands("number", 100, 95, 90)}
StochInputs == {MissingValue, Number(10), Number(50), Number(90)}
IndicatorInputs == [rsi : RsiInputs, macd : MacdInputs, bb : BandInputs, stoch : StochInputs]

GenerateSignalsCall ==
    \E indicators \in IndicatorInputs :
        /\ lastCall' = FunctionCall("generate_signals", <<indicators>>)
        /\ lastReturned' = generate_signals(indicators)
        /\ UNCHANGED <<riskVars, stratVars, botVars, now, reductions, undelivered, fundVars>>

NextIndicators == GenerateSignalsCall
SpecIndicators == Init /\ [][NextIndicators]_vars

----------------------------------------------------------------------------
(* SpecCorrelation: _monitor_correlation_risks, risk_manager.py:777-814,   *)
(* applied to position tables drawn from bounded sets; sizes in quarters   *)
(* of a coin, prices in cents.                                             *)

CorrelationSymbols == {"BTC/USDT", "ETH/USDT", "XRP/USDT"}
Held(size, current_price) == [side |-> "buy", size |-> size, current_price |-> current_price]
\* positions worth $0.25, $1, $25 and $100
HeldInputs == {Held(size, price) : size \in {1, 4}, price \in {100, 10000}}
CorrelationTables == [CorrelationSymbols -> HeldInputs \cup {NoPos}]

\* the 'correlation' of the returned assessment, in dollars
avg_correlation(pos) ==
    IF Cardinality(OpenSymbols(pos)) < 2 THEN ZeroSize
    ELSE Size(TotalCorrelationRisk(pos), 4000 * Cardinality(PositionPairs(pos)))

CorrelationCall ==
    \E pos \in CorrelationTables :
        /\ lastCall' = FunctionCall("_monitor_correlation_risks", <<pos>>)
        /\ lastReturned' = [risk_level |-> CorrelationRiskLevel(pos), correlation |-> avg_correlation(pos)]
        /\ UNCHANGED <<riskVars, stratVars, botVars, now, reductions, undelivered, fundVars>>

NextCorrelation == CorrelationCall
SpecCorrelation == Init /\ [][NextCorrelation]_vars

----------------------------------------------------------------------------
(* SpecCritical: real_time_risk_monitoring, risk_manager.py:675-720,       *)
(* applied to position tables, regimes and previous regimes drawn from     *)
(* bounded sets, one after the other: the bot monitors in every cycle.     *)

\* a position opened at entry_time and priced at current_price since
HeldSince(side, size, price, current_price, entry_time) ==
    [side |-> side, size |-> size, price |-> price, exchange_type |-> "futures", stop_loss_price |-> 0, take_profit_price |-> 0, entry_time |-> entry_time, current_price |-> current_price]
\* no position; a fresh $100 position; positions of 120 coins bought at
\* $100, 25 hours old and now at $90, or fresh and now at $110; a short of
\* 120 coins, 25 hours old and now at $110
CriticalPositions ==
    <<NoPos,
      HeldSince("buy", 4, 10000, 10000, 0),
      HeldSince("buy", 480, 10000, 9000, 0 - 1500),
      HeldSince("buy", 480, 10000, 11000, 0),
      HeldSince("sell", 480, 10000, 11000, 0 - 1500)>>
RegimeOrder == <<"trending", "ranging", "volatile", "neutral">>
PreviousOrder == <<"neutral", "volatile">>
CriticalInputCount == Len(CriticalPositions) * Len(CriticalPositions) * Len(RegimeOrder) * Len(PreviousOrder)
\* the i-th input: a position table, the regime drawn and the previous one
CriticalInput(i) ==
    <<[symbol \in Symbols |-> IF symbol = "BTC/USDT" THEN CriticalPositions[(i % Len(CriticalPositions)) + 1] ELSE CriticalPositions[((i \div Len(CriticalPositions)) % Len(CriticalPositions)) + 1]],
      RegimeOrder[((i \div (Len(CriticalPositions) * Len(CriticalPositions))) % Len(RegimeOrder)) + 1],
      PreviousOrder[((i \div (Len(CriticalPositions) * Len(CriticalPositions) * Len(RegimeOrder))) % Len(PreviousOrder)) + 1]>>

MonitoringCall(input) ==
    LET level == MonitoringLevel(input[1], input[2], input[3])
    IN  /\ lastCall' = FunctionCall("real_time_risk_monitoring", input)
        /\ lastReturned' = [risk_level |-> level, components |-> ComponentLevels(TrailedPositions(input[1]), input[2], input[3]), positions |-> MonitoredPositions(input[1], level)]
        /\ reductions' = IF level = "critical" /\ reductions < MaxReductions THEN reductions + 1 ELSE reductions
        /\ UNCHANGED <<riskVars, stratVars, botVars, now, undelivered, fundVars>>
\* the place of the input monitored last, and the call on the next one
MonitoredLast ==
    IF lastCall.op = "real_time_risk_monitoring" THEN CHOOSE i \in 0..(CriticalInputCount - 1) : CriticalInput(i) = lastCall.args ELSE CriticalInputCount - 1
CriticalCall == MonitoringCall(CriticalInput((MonitoredLast + 1) % CriticalInputCount))

NextCritical == CriticalCall
SpecCritical == Init /\ [][NextCritical]_vars

----------------------------------------------------------------------------
(* SpecExecute: one signal of the loop of analyze_and_execute_strategy,    *)
(* hybrid_trading_bot_v2.py:338-380, through validate_trade,               *)
(* _execute_trade (388-529), validate_signal_strength                      *)
(* (technical_analysis.py:213-411) and execute_smart_order                 *)
(* (exchange_interface.py:224-493).  Sizes are fractions of a quarter-coin,*)
(* prices cents, balances dollars, scores hundredths.                      *)

\* a Python dict is a function of its keys; {} has none
EmptyDict == [key \in {} |-> FALSE]
\* `if result`
Truthy(dict) == DOMAIN dict # {}
\* result.get('success'), None counting as false
GetSuccess(dict) == IF "success" \in DOMAIN dict THEN dict.success ELSE FALSE
\* `order and order.get('id')`
HasId(order) == "id" \in DOMAIN order

\* validate_trade, risk_manager.py:54-60: adjusted_size is the size, or
\* max_position_value / price when the position value is above it
AdjustedSize(size, price, current_balance) ==
    IF size * price * 100 > current_balance * max_position_size_pct * 400
    THEN Reduced(Size(current_balance * max_position_size_pct * 4, price))
    ELSE Size(size, 1)

\* _check_timeframe_consistency, technical_analysis.py:277-306, of the
\* combined signal and the individual signals present
check_timeframe_consistency(strength, individual) ==
    LET checked    == {i \in DOMAIN individual : Abs(individual[i]) > 10}
        consistent == {i \in checked : (strength > 0 /\ individual[i] > 0) \/ (strength <= 0 /\ individual[i] < 0)}
    IN  IF Abs(strength) < 10 THEN 0
        ELSE IF checked = {} THEN 0
        ELSE (Cardinality(consistent) * 100) \div Cardinality(checked)

\* _check_volume_support, technical_analysis.py:308-335, the key 'volume'
\* being present
check_volume_support(volume, avg_volume) ==
    IF avg_volume <= 0 THEN 50
    ELSE IF volume * 10 > avg_volume * 15 THEN 90
    ELSE IF volume * 10 > avg_volume * 12 THEN 70
    ELSE IF volume * 10 > avg_volume * 8 THEN 50
    ELSE 20

\* _identify_market_regime, technical_analysis.py:337-374: price_data is
\* given by its length and the trend strength and volatility of its last 20
\* prices in basis points
identify_market_regime(price_data) ==
    IF price_data.len < 20 THEN 50
    ELSE IF price_data.trend_strength > 500 /\ price_data.volatility < 300 THEN 90
    ELSE IF price_data.trend_strength > 200 /\ price_data.volatility < 500 THEN 70
    ELSE IF price_data.volatility > 500 THEN 30
    ELSE 50

\* _apply_noise_filter, technical_analysis.py:376-411: 2 of 3 is below 0.67
apply_noise_filter(strength, signal_history) ==
    LET recent     == {i \in (Len(signal_history) - 2)..Len(signal_history) : i >= 1}
        consistent == {i \in recent : (strength > 0 /\ signal_history[i] > 0) \/ (strength <= 0 /\ signal_history[i] < 0)}
    IN  IF Abs(strength) < 8 THEN 10
        ELSE IF Len(signal_history) < 3 THEN 60
        ELSE IF Cardinality(consistent) * 100 >= 67 * 3 THEN 90
        ELSE IF Cardinality(consistent) * 100 >= 33 * 3 THEN 60
        ELSE 30

\* validate_signal_strength, technical_analysis.py:213-275; final_strength
\* in 1/10000
validate_signal_strength(strength, individual, volume, avg_volume, price_data, signal_history) ==
    LET consistency_score   == check_timeframe_consistency(strength, individual)
        volume_confirmation == check_volume_support(volume, avg_volume)
        market_regime_score == identify_market_regime(price_data)
        noise_filter_score  == apply_noise_filter(strength, signal_history)
        final_strength      == consistency_score * 25 + volume_confirmation * 30 + market_regime_score * 20 + noise_filter_score * 25
    IN  [is_valid |-> final_strength > 2500, confidence |-> final_strength, noise_filter_score |-> noise_filter_score]

\* place_order, exchange_interface.py:224-250: the order the exchange
\* created, or {} when create_market_order / create_limit_order raised
place_order(accepted, side, amount, order_type) ==
    IF accepted THEN [id |-> "order", side |-> side, amount |-> amount, type |-> order_type] ELSE EmptyDict

\* _determine_optimal_order_type, exchange_interface.py:328-352;
\* volatility in thousandths
determine_optimal_order_type(volatility, liquidity, strategy_type) ==
    IF volatility > 30 THEN "twap"
    ELSE IF liquidity = "low" THEN "iceberg"
    ELSE "smart_limit"

num_splits == 5
iceberg_chunks == 10

\* What a smart order leaves: the dict returned and the amounts of the
\* orders standing on the exchange.  rejected is the set of the place_order
\* calls, counted from 1, that the exchange refuses.
\* _execute_twap_order, exchange_interface.py:354-401
execute_twap_order(side, amount, rejected) ==
    LET accepted == {i \in 1..num_splits : i \notin rejected}
        total    == Times(amount, Cardinality(accepted), num_splits)
    IN  [result |-> [id |-> "twap", side |-> side, amount |-> total, type |-> "twap", status |-> IF total.num > 0 THEN "filled" ELSE "failed"],
         placed |-> [i \in 1..Cardinality(accepted) |-> Times(amount, 1, num_splits)]]

\* _execute_iceberg_order, exchange_interface.py:403-462
execute_iceberg_order(side, amount, rejected) ==
    LET looped   == IF amount.num > 0 THEN 1..(iceberg_chunks - 1) ELSE {}
        refused  == {i \in looped : i \in rejected}
        chunks   == IF refused = {} THEN Cardinality(looped) ELSE (CHOOSE i \in refused : \A j \in refused : i <= j) - 1
        calls    == IF refused = {} THEN chunks ELSE chunks + 1
        remains  == Times(amount, iceberg_chunks - chunks, iceberg_chunks)
        final    == remains.num > 0 /\ (calls + 1) \notin rejected
        limits   == [i \in 1..chunks |-> Times(amount, 1, iceberg_chunks)]
        placed   == IF final THEN Append(limits, remains) ELSE limits
        total    == IF final THEN amount ELSE Times(amount, chunks, iceberg_chunks)
    IN  [result |-> [id |-> "iceberg", side |-> side, amount |-> total, type |-> "iceberg", status |-> IF total.num > 0 THEN "filled" ELSE "failed"],
         placed |-> placed]

\* _execute_smart_limit_order, exchange_interface.py:464-503: an order not
\* closed after five seconds is cancelled and placed again
execute_smart_limit_order(side, amount, rejected, closed) ==
    LET order == place_order(1 \notin rejected, side, amount, "limit")
        again == place_order(2 \notin rejected, side, amount, "limit")
    IN  IF HasId(order) /\ ~closed
        THEN [result |-> again, placed |-> IF HasId(again) THEN <<amount>> ELSE <<>>]
        ELSE [result |-> order, placed |-> IF HasId(order) THEN <<amount>> ELSE <<>>]

\* execute_smart_order, exchange_interface.py:252-287
execute_smart_order(side, amount, strategy_type, market) ==
    LET optimal_order_type == determine_optimal_order_type(market.volatility, market.liquidity, strategy_type)
    IN  IF optimal_order_type = "twap" THEN execute_twap_order(side, amount, market.rejected)
        ELSE IF optimal_order_type = "iceberg" THEN execute_iceberg_order(side, amount, market.rejected)
        ELSE execute_smart_limit_order(side, amount, market.rejected, market.closed)

\* the amount _execute_trade sends whatever the risk check allowed
adaptive_size(signal, current_price, current_balance) ==
    IF signal.size > 0 THEN Size(signal.size, 1)
    ELSE IF current_price > 0 THEN Reduced(Size(current_balance * 4, current_price))
    ELSE ZeroSize

\* _execute_trade, hybrid_trading_bot_v2.py:388-529, auto_transfer being
\* None (line 131): the validation of the signal, the amount sent, what
\* stands on the exchange, the dict returned and whether the trade was
\* stored and counted (lines 479-501)
execute_trade(signal, current_price, current_balance, market) ==
    LET validation_result == validate_signal_strength(signal.confidence, <<>>, 0, 0, [len |-> 0, trend_strength |-> 0, volatility |-> 0], <<>>)
        amount            == adaptive_size(signal, current_price, current_balance)
        smart             == execute_smart_order(signal.action, amount, signal.strategy, market)
    IN  IF ~validation_result.is_valid
        THEN [validation |-> validation_result, amount |-> ZeroSize, placed |-> <<>>, result |-> [success |-> FALSE], stored |-> FALSE]
        ELSE [validation |-> validation_result, amount |-> amount, placed |-> smart.placed, result |-> smart.result,
              stored |-> Truthy(smart.result) /\ GetSuccess(smart.result)]

ExecuteSignals ==
    {Order("momentum", "BTC/USDT", "spot", "buy", 4, 80),
     Order("momentum", "BTC/USDT", "spot", "buy", 160, 70),
     Order("arbitrage", "ETH/USDT", "futures", "sell", 4, 30),
     Order("arbitrage", "BTC/USDT", "futures", "sell", 160, 70),
     Order("hedging", "ETH/USDT", "futures", "buy", 0, 60),
     Order("momentum", "ETH/USDT", "spot", "sell", 4, 5)}
ExecutePrices == {10000}
ExecuteBalances == {1000, 10000}
RejectedCalls == {{}, 1..iceberg_chunks} \cup {{i} : i \in 1..iceberg_chunks}
ExecuteMarkets == [volatility : {20, 40}, liquidity : {"low", "normal"}, rejected : RejectedCalls, closed : BOOLEAN]

\* lines 350-378 for one signal above the confidence threshold
ExecuteSignal(signal, current_price, current_balance, market) ==
    LET is_valid     == ValidateTrade(positions, daily_pnl, current_drawdown, signal.action, signal.size, current_price, current_balance, signal.exchange_type)
        risk_check   == [is_valid |-> is_valid, adjusted_size |-> AdjustedSize(signal.size, current_price, current_balance)]
        trade        == execute_trade(signal, current_price, current_balance, market)
        executed     == Truthy(trade.result) /\ GetSuccess(trade.result)
    IN  IF is_valid
        THEN /\ lastCall' = FunctionCall("_execute_trade", <<signal, current_price, current_balance>>)
             /\ lastReturned' = [risk_check |-> risk_check, validation |-> trade.validation, amount |-> trade.amount, placed |-> trade.placed,
                                 result |-> trade.result, stored |-> trade.stored, executed |-> executed]
             /\ current_positions' = IF executed THEN UpdatedPositions(current_positions, signal.symbol, signal.exchange_type, trade.result) ELSE current_positions
             /\ UNCHANGED <<riskVars, last_rebalance, botVars, now, reductions, undelivered, fundVars>>
        ELSE /\ lastCall' = FunctionCall("validate_trade", <<signal, current_price, current_balance>>)
             /\ lastReturned' = [risk_check |-> risk_check]
             /\ UNCHANGED <<riskVars, stratVars, botVars, now, reductions, undelivered, fundVars>>
ExecuteCall ==
    \E signal \in ExecuteSignals, current_price \in ExecutePrices, current_balance \in ExecuteBalances, market \in ExecuteMarkets :
        ExecuteSignal(signal, current_price, current_balance, market)

NextExecute == ExecuteCall
SpecExecute == Init /\ [][NextExecute]_vars

----------------------------------------------------------------------------
(* SpecPurchase: _generate_initial_purchase_orders,                        *)
(* hybrid_portfolio_strategy.py:697-767, applied to portfolio states drawn *)
(* from bounded sets: balances in dollars, prices in cents, sizes in       *)
(* quarters of a coin.                                                     *)

\* $200, $1000 and $10000, with nothing, a fifth, 40%, a half or all of it
\* on the spot account; prices of $0 (missing), $25 and $100
PurchaseTotals == {200, 1000, 10000}
PurchaseSpotPcts == {0, 20, 40, 50, 100}
PurchasePrices == {0, 2500, 10000}
PurchaseStates ==
    {[total_balance |-> total, spot_balance |-> (total * pct) \div 100, futures_balance |-> total - (total * pct) \div 100,
      current_prices |-> [symbol \in Symbols |-> IF symbol = "BTC/USDT" THEN btc ELSE eth]] :
        total \in PurchaseTotals, pct \in PurchaseSpotPcts, btc \in PurchasePrices, eth \in PurchasePrices}

PurchaseCall ==
    \E portfolio_state \in PurchaseStates :
        /\ lastCall' = FunctionCall("_generate_initial_purchase_orders", <<portfolio_state>>)
        /\ lastReturned' = generate_initial_purchase_orders(portfolio_state)
        /\ UNCHANGED <<riskVars, stratVars, botVars, now, reductions, undelivered, fundVars>>

NextPurchase == PurchaseCall
SpecPurchase == Init /\ [][NextPurchase]_vars

----------------------------------------------------------------------------
(* SpecFunding: the KoreaComplianceManager, korea_compliance_manager.py,   *)
(* called by the trading cycle (hybrid_trading_bot_v2.py:324-327) and by   *)
(* the start_monitoring task (lines 889-890) of one event loop.  The bot   *)
(* assigns None to self.korea_compliance (line 150, the construction on    *)
(* line 149 is a comment); the specification is of the manager with both   *)
(* call sites live, the Upbit API available and a deposit address set.     *)
(* A task gives up control only at an await that suspends: the             *)
(* asyncio.sleep(10) of auto_purchase_and_transfer, upbit_interface.py:567,*)
(* and the sleep between two rounds of start_monitoring.  Amounts are in   *)
(* USDT and in KRW.                                                        *)

min_transfer_amount == 50
max_transfer_amount == 5000
sufficient_krw_threshold == 150000
withdraw_fee == 1

\* the KRW-USDT prices and the KRW balances Upbit reports
UsdtPrices == {1400}
KrwBalances == {100000, 160000, 1000000}
\* the amounts calculate_required_usdt hands to the cycle
RequiredUsdt == {40, 120}

Smaller(a, b) == IF a < b THEN a ELSE b

\* lines 167-169: min(shortage * self.transfer_buffer, max_transfer_amount)
TransferAmount(required_usdt) ==
    Smaller(((required_usdt - binance_usdt) * 11) \div 10, max_transfer_amount)

\* calculate_optimal_usdt_amount and the balance test of
\* auto_purchase_and_transfer, upbit_interface.py:495-548:
\* krw_balance < (target_usdt + 1.0) * current_price / (1 - 0.0005)
KrwShort(target_usdt, current_price, upbit_krw) ==
    upbit_krw * 1999 < (target_usdt + withdraw_fee) * current_price * 2000

\* ensure_usdt_availability, lines 141-193, and auto_purchase_and_transfer,
\* upbit_interface.py:528-567, up to the sleep: no test of pending_transfers
\* and none of a purchase another task has begun
ensure_usdt_availability(task, required_usdt, upbit_krw, current_price) ==
    IF required_usdt < min_transfer_amount
    THEN /\ lastReturned' = [success |-> TRUE, action |-> "no_action_needed"]
         /\ UNCHANGED <<pcFunding, upbit_usdt>>
    ELSE IF binance_usdt >= required_usdt
    THEN /\ lastReturned' = [success |-> TRUE, action |-> "sufficient_balance"]
         /\ UNCHANGED <<pcFunding, upbit_usdt>>
    ELSE IF KrwShort(TransferAmount(required_usdt), current_price, upbit_krw)
    THEN /\ lastReturned' = [success |-> FALSE, action |-> "manual_action_required"]
         /\ UNCHANGED <<pcFunding, upbit_usdt>>
    ELSE /\ Len(withdrawals) < MaxWithdrawals
         /\ upbit_usdt + TransferAmount(required_usdt) + withdraw_fee <= MaxUpbitUsdt
         /\ upbit_usdt' = upbit_usdt + TransferAmount(required_usdt) + withdraw_fee
         /\ pcFunding' = [pcFunding EXCEPT ![task] = [at |-> "purchasing", target_usdt |-> TransferAmount(required_usdt), required_usdt |-> required_usdt]]
         /\ lastReturned' = <<>>

\* run_trading_cycle, hybrid_trading_bot_v2.py:324-327: cycles do not
\* overlap, so the cycle calls again only after its call has returned
CycleEnsure ==
    \E required_usdt \in RequiredUsdt, upbit_krw \in KrwBalances, current_price \in UsdtPrices :
        /\ pcFunding["cycle"].at = "idle"
        /\ ensure_usdt_availability("cycle", required_usdt, upbit_krw, current_price)
        /\ lastCall' = FunctionCall("ensure_usdt_availability", <<"cycle", required_usdt>>)
        /\ UNCHANGED <<pending_transfers, binance_usdt, withdrawals, riskVars, stratVars, botVars, now, reductions, undelivered>>

\* auto_purchase_and_transfer after the sleep, upbit_interface.py:569-600,
\* and the rest of ensure_usdt_availability, lines 195-229: the whole USDT
\* balance of Upbit is withdrawn, and the transfer is recorded as pending
\* when Upbit accepted the withdrawal
PurchaseResumes ==
    \E task \in FundingTasks, accepted \in BOOLEAN :
        /\ pcFunding[task].at = "purchasing"
        /\ IF upbit_usdt < pcFunding[task].target_usdt \/ ~accepted
           THEN /\ lastReturned' = [success |-> FALSE, action |-> "manual_action_required"]
                /\ UNCHANGED <<pending_transfers, upbit_usdt, withdrawals>>
           ELSE /\ withdrawals' = Append(withdrawals, [state |-> "processing", amount |-> upbit_usdt])
                /\ upbit_usdt' = 0
                /\ pending_transfers' = pending_transfers @@ (Len(withdrawals) + 1 :> [timestamp |-> now, amount |-> pcFunding[task].target_usdt, status |-> "pending"])
                /\ lastReturned' = [success |-> TRUE, action |-> "auto_transfer_initiated"]
        /\ pcFunding' = [pcFunding EXCEPT ![task] = NotPurchasing]
        /\ lastCall' = FunctionCall("auto_purchase_and_transfer", <<task>>)
        /\ UNCHANGED <<binance_usdt, riskVars, stratVars, botVars, now, reductions, undelivered>>

\* monitor_pending_transfers, lines 235-279: the table without the
\* transfers that are done, rejected or canceled, or older than 24 hours
MonitoredTransfers(pending) ==
    LET completed == {w \in DOMAIN pending : \/ withdrawals[w].state \in {"done", "rejected"}
                                             \/ now - pending[w].timestamp > 24 * 60}
    IN  [w \in DOMAIN pending \ completed |-> pending[w]]

\* proactive_balance_management, lines 281-318: the test of lines 301-303
ProactiveNeeded(active_hours, upbit_krw, pending) ==
    /\ active_hours
    /\ binance_usdt < min_transfer_amount * 2
    /\ upbit_krw > sufficient_krw_threshold
    /\ DOMAIN pending = {}

\* a round of start_monitoring, lines 363-374, up to its first suspension:
\* monitor_pending_transfers and proactive_balance_management
StartMonitoring ==
    \E active_hours \in BOOLEAN, upbit_krw \in KrwBalances, current_price \in UsdtPrices :
        /\ pcFunding["monitor"].at = "idle"
        /\ pending_transfers' = MonitoredTransfers(pending_transfers)
        /\ IF ProactiveNeeded(active_hours, upbit_krw, MonitoredTransfers(pending_transfers))
           THEN ensure_usdt_availability("monitor", min_transfer_amount * 2, upbit_krw, current_price)
           ELSE /\ lastReturned' = <<>>
                /\ UNCHANGED <<pcFunding, upbit_usdt>>
        /\ lastCall' = FunctionCall("start_monitoring", <<active_hours, upbit_krw>>)
        /\ UNCHANGED <<binance_usdt, withdrawals, riskVars, stratVars, botVars, now, reductions, undelivered>>

\* Upbit settles a withdrawal: the amount less the fee arrives at Binance,
\* or the withdrawal is rejected and the amount stays at Upbit
WithdrawalSettles ==
    \E w \in DOMAIN withdrawals, state \in {"done", "rejected"} :
        /\ withdrawals[w].state = "processing"
        /\ withdrawals' = [withdrawals EXCEPT ![w].state = state]
        /\ binance_usdt' = IF state = "done" THEN binance_usdt + withdrawals[w].amount - withdraw_fee ELSE binance_usdt
        /\ upbit_usdt' = IF state = "done" THEN upbit_usdt ELSE upbit_usdt + withdrawals[w].amount
        /\ lastCall' = FunctionCall("get_withdraw_status", <<w, state>>)
        /\ lastReturned' = <<>>
        /\ UNCHANGED <<pending_transfers, pcFunding, riskVars, stratVars, botVars, now, reductions, undelivered>>

NextFunding == CycleEnsure \/ StartMonitoring \/ PurchaseResumes \/ WithdrawalSettles \/ Tick
SpecFunding == Init /\ [][NextFunding]_vars

----------------------------------------------------------------------------
(* SpecAlerts: the alert queue under update_position_risk, emergency_stop  *)
(* and get_risk_alerts.                                                    *)

AlertAdd ==
    \E s \in Symbols, side \in Sides, price \in EntryPrices :
        \E stop \in StopArgs(side) \ {0}, tp \in TakeProfitArgs(side) \ {0} :
            add_position(s, side, 100, price, "spot", stop, tp)
AlertUpdate ==
    \E s \in Symbols, price \in UpdatePrices :
        QueueRoom(s, price, MaxQueue) /\ update_position_risk(s, price)
AlertEmergency == emergency_stop
AlertGet == get_risk_alerts /\ UNCHANGED botVars

NextAlerts == AlertAdd \/ AlertUpdate \/ AlertEmergency \/ AlertGet \/ Tick
SpecAlerts == Init /\ [][NextAlerts]_vars

----------------------------------------------------------------------------
(* HybridTradingBotV2: start(), run_trading_cycle() and                    *)
(* analyze_and_execute_strategy(), hybrid_trading_bot_v2.py:268-386 and    *)
(* 758-914.  One action per step of the cycle.                             *)

\* self.telegram is never assigned: the assignment in _initialize_components
\* is commented out (hybrid_trading_bot_v2.py:116)
has_telegram == FALSE

\* start() after `await self.run_trading_cycle()` has launched the cycle: it
\* is suspended until the cycle returns (a task created without await would
\* let it go on to the sleep)
LoopAfterLaunch_create_task == "sleeping"
LoopAfterLaunch == "awaiting"

\* a step of the bot that leaves the risk manager and the strategy alone
BotStep(op, symbol, exchange_type) ==
    /\ lastCall' = Call(op, symbol, exchange_type)
    /\ lastReturned' = <<>>
    /\ UNCHANGED <<reductions, undelivered>>

Logged(c, tag) == [c EXCEPT !.log = Append(@, tag)]

\* run_trading_cycle returns: the awaiting start() goes on to the sleep
ReturnFromCycle ==
    /\ pc' = "idle"
    /\ activeCycles' = activeCycles - 1
    /\ pcStart' = IF pcStart = "awaiting" THEN "sleeping" ELSE pcStart

\* start(), line 885: self.running = True
Start ==
    /\ pcStart = "init"
    /\ running' = TRUE
    /\ pcStart' = "loop"
    /\ BotStep("start", "", "")
    /\ UNCHANGED <<riskVars, stratVars, cycle_count, pc, activeCycles, cyc,
                   now, fundVars>>

\* lines 892-893: while self.running: await self.run_trading_cycle()
LaunchCycle ==
    /\ pcStart = "loop"
    /\ running
    /\ cycle_count < MaxCycles
    /\ activeCycles' = activeCycles + 1
    /\ pc' = "begin"
    /\ pcStart' = LoopAfterLaunch
    /\ BotStep("run_trading_cycle", "", "")
    /\ UNCHANGED <<riskVars, stratVars, running, cycle_count, cyc, now, fundVars>>

\* line 896: await asyncio.sleep(60)
Sleep ==
    /\ pcStart = "sleeping"
    /\ now' = now + 1
    /\ pcStart' = "loop"
    /\ BotStep("sleep", "", "")
    /\ UNCHANGED <<riskVars, stratVars, running, cycle_count, pc,
                   activeCycles, cyc, fundVars>>

\* lines 900-914: an exception that leaves run_trading_cycle is logged by
\* start(), whose finally clause calls stop(): self.running = False
StartExcept ==
    /\ pcStart = "failed"
    /\ running' = FALSE
    /\ pcStart' = "stopped"
    /\ BotStep("stop", "", "")
    /\ UNCHANGED <<riskVars, stratVars, cycle_count, pc, activeCycles, cyc,
                   now, fundVars>>

\* lines 761-774: the cycle counter; the balance display of every fifth
\* cycle fails inside its own try (korea_compliance is None) and changes
\* nothing
CycleBegin ==
    /\ pc = "begin"
    /\ cycle_count' = cycle_count + 1
    /\ cyc' = [EmptyCycle EXCEPT !.rebalance_before = last_rebalance]
    /\ pc' = "collect"
    /\ BotStep("cycle_begin", "", "")
    /\ UNCHANGED <<riskVars, stratVars, running, pcStart, activeCycles, now, fundVars>>

\* ---- inputs of a cycle

\* the snapshot collect_market_data returns: symbol -> last price of the
\* ticker, over the symbols whose fetch succeeded ({} when none did)
Quotes == [s \in Symbols |-> 10000]
MarketDataInputs == {<<>>, Quotes}
\* minutes the exchange calls of collect_market_data take
FetchMinutes == {1, 16}

\* what PortfolioManager.get_portfolio_summary returns
PortfolioState(spot_balance, futures_balance) ==
    [total_balance |-> spot_balance + futures_balance,
     spot_balance |-> spot_balance, futures_balance |-> futures_balance,
     current_balance |-> spot_balance + futures_balance,
     current_prices |-> Quotes]
PortfolioStates ==
    {PortfolioState(4000, 6000), PortfolioState(4200, 5800),
     PortfolioState(10000, 0)}

\* what generate_portfolio_signals returns: lists of signals with size in
\* quarters of a coin and confidence in hundredths
Signal(symbol, exchange_type, action, size, confidence) ==
    Order("signal", symbol, exchange_type, action, size, confidence)
SignalLists ==
    {<<>>,
     <<Signal("BTC/USDT", "spot", "buy", 4, 80)>>,
     <<Signal("BTC/USDT", "futures", "sell", 160, 70),
       Signal("ETH/USDT", "futures", "sell", 4, 60)>>,
     <<Signal("ETH/USDT", "spot", "buy", 4, 20),
       Signal("BTC/USDT", "futures", "buy", 4, 30)>>}

\* what PortfolioManager.update_portfolio_state reports to the risk manager
PnlReports == {[realized_pnl |-> 0, current_balance |-> 10000],
               [realized_pnl |-> -600, current_balance |-> 9400]}

\* the result of a successful _execute_trade
TradeResult == [success |-> TRUE, order |-> "o1"]

\* ---- the steps of run_trading_cycle up to the strategy

\* lines 777-781: an empty snapshot ends the cycle.  Lines 784-797, the
\* transfer of every tenth cycle, change nothing: auto_transfer is None.
CollectMarketData ==
    /\ pc = "collect"
    /\ \E d \in FetchMinutes, market_data \in MarketDataInputs :
          /\ now' = now + d
          /\ IF DOMAIN market_data = {}
             THEN /\ ReturnFromCycle
                  /\ cyc' = Logged(cyc, "snapshot_empty")
             ELSE /\ pc' = "portfolio"
                  /\ cyc' = Logged([cyc EXCEPT !.market_data = market_data],
                                   "snapshot")
                  /\ UNCHANGED <<pcStart, activeCycles>>
    /\ BotStep("collect_market_data", "", "")
    /\ UNCHANGED <<riskVars, stratVars, running, cycle_count, fundVars>>

\* line 272; an exception is caught by the except clause of
\* analyze_and_execute_strategy (lines 384-386), which returns []
GetPortfolioSummary ==
    /\ pc = "portfolio"
    /\ \/ \E p \in PortfolioStates :
             /\ cyc' = Logged([cyc EXCEPT !.portfolio = p], "portfolio")
             /\ pc' = "opportunities"
       \/ /\ cyc' = Logged(cyc, "portfolio_failed")
          /\ pc' = "update_portfolio"
    /\ BotStep("get_portfolio_summary", "", "")
    /\ UNCHANGED <<riskVars, stratVars, running, cycle_count, pcStart,
                   activeCycles, now, fundVars>>

\* line 275
AnalyzeMarketOpportunity ==
    /\ pc = "opportunities"
    /\ cyc' = Logged(cyc, "opportunities")
    /\ pc' = "check_rebalancing"
    /\ BotStep("analyze_market_opportunity", "", "")
    /\ UNCHANGED <<riskVars, stratVars, running, cycle_count, pcStart,
                   activeCycles, now, fundVars>>

\* line 285
CheckRebalancing ==
    /\ pc = "check_rebalancing"
    /\ cyc' = Logged(cyc, "check_rebalancing")
    /\ pc' = IF check_rebalancing_needed(cyc.portfolio, last_rebalance, now)
             THEN "generate_orders" ELSE "signals"
    /\ BotStep("check_rebalancing_needed", "", "")
    /\ UNCHANGED <<riskVars, stratVars, running, cycle_count, pcStart,
                   activeCycles, now, fundVars>>

\* line 286
GenerateRebalancingOrders ==
    /\ pc = "generate_orders"
    /\ LET orders == RebalancingOrders(cyc.portfolio)
       IN  /\ last_rebalance' = RebalanceStamp(orders, last_rebalance, now)
           /\ cyc' = Logged([cyc EXCEPT !.orders = orders, !.i = 1],
                            "generate_orders")
           /\ pc' = IF orders = <<>> THEN "signals" ELSE "rebalance_order"
    /\ BotStep("generate_rebalancing_orders", "", "")
    /\ UNCHANGED <<riskVars, current_positions, running, cycle_count,
                   pcStart, activeCycles, now, fundVars>>

\* lines 287-291: each rebalancing order goes to _execute_trade
ExecuteRebalancingOrder ==
    /\ pc = "rebalance_order"
    /\ LET order == cyc.orders[cyc.i]
       IN  /\ \E success \in BOOLEAN :
                cyc' = Logged([cyc EXCEPT
                                 !.submitted = @ \cup {order},
                                 !.failed = IF success THEN @
                                            ELSE @ \cup {order},
                                 !.i = @ + 1],
                              "rebalance_order")
           /\ pc' = IF cyc.i = Len(cyc.orders) THEN "signals"
                    ELSE "rebalance_order"
           /\ BotStep("_execute_trade", order.symbol, order.exchange_type)
    /\ UNCHANGED <<riskVars, stratVars, running, cycle_count, pcStart,
                   activeCycles, now, fundVars>>

\* ---- the signals of the cycle

\* line 294
GeneratePortfolioSignals ==
    /\ pc = "signals"
    /\ \E signals \in SignalLists :
          cyc' = Logged([cyc EXCEPT !.signals = signals,
                                    !.generated = signals], "signals")
    /\ pc' = "monitor"
    /\ BotStep("generate_portfolio_signals", "", "")
    /\ UNCHANGED <<riskVars, stratVars, running, cycle_count, pcStart,
                   activeCycles, now, fundVars>>

\* the base threshold of line 313 at every level
ConfidenceThreshold_base(risk_level) == 25
\* lines 313-321: the confidence threshold for the level, in hundredths
ConfidenceThreshold(risk_level) ==
    IF risk_level = "high" THEN 60
    ELSE IF risk_level = "critical" THEN 80
    ELSE 25

Prefix(seq, n) == SubSeq(seq, 1, IF Len(seq) < n THEN Len(seq) ELSE n)

\* the loop of line 338 without the slice
LoopSignals_all(risk_level, signals) == signals
\* line 319 and line 338: two signals at most at level critical, and five
\* at most in the loop
LoopSignals(risk_level, signals) ==
    Prefix(IF risk_level = "critical" THEN Prefix(signals, 2) ELSE signals,
           5)

\* lines 297-321
MonitorRisk ==
    /\ pc = "monitor"
    /\ \E current_regime \in Regimes :
          real_time_risk_monitoring(current_regime)
    /\ LET risk_level == lastCall'.level
           signals    == LoopSignals(risk_level, cyc.signals)
       IN  /\ cyc' = Logged([cyc EXCEPT
                               !.threshold = ConfidenceThreshold(risk_level),
                               !.risk_level = risk_level,
                               !.signals = signals, !.i = 1],
                            "monitor")
           /\ pc' = IF signals = <<>> THEN "update_portfolio"
                    ELSE "signal_check"
    /\ UNCHANGED <<running, cycle_count, pcStart, activeCycles>>

\* market_data.get(symbol, {}).get(ticker, {}).get('last', 0), line 351
TickerLast(market_data, symbol) ==
    IF symbol \in DOMAIN market_data THEN market_data[symbol] ELSE 0

\* the loop of line 338 left after the signal at index i
AfterSignal_leave(c) == "update_portfolio"
\* the position of the loop of line 338 after the signal at index i
AfterSignal(c) ==
    IF c.i = Len(c.signals) THEN "update_portfolio" ELSE "signal_check"

\* lines 339-361: the confidence check and validate_trade for one signal
SignalCheck ==
    /\ pc = "signal_check"
    /\ LET signal == cyc.signals[cyc.i]
           is_valid ==
               ValidateTrade(positions, daily_pnl, current_drawdown,
                             signal.action, signal.size,
                             TickerLast(cyc.market_data, signal.symbol),
                             cyc.portfolio.current_balance,
                             signal.exchange_type)
       IN  IF signal.confidence < cyc.threshold
           THEN /\ cyc' = Logged([cyc EXCEPT !.i = @ + 1], "signal_skipped")
                /\ pc' = AfterSignal(cyc)
                /\ BotStep("skip", signal.symbol, signal.exchange_type)
           ELSE IF is_valid
           THEN /\ cyc' = Logged([cyc EXCEPT !.accepted = @ \cup {signal}],
                                 "risk_check")
                /\ pc' = "signal_trade"
                /\ BotStep("validate_trade", signal.symbol,
                           signal.exchange_type)
           ELSE /\ cyc' = Logged([cyc EXCEPT !.i = @ + 1], "risk_check")
                /\ pc' = AfterSignal(cyc)
                /\ BotStep("validate_trade", signal.symbol,
                           signal.exchange_type)
    /\ UNCHANGED <<riskVars, stratVars, running, cycle_count, pcStart,
                   activeCycles, now, fundVars>>

\* lines 364-378: _execute_trade for the accepted signal
SignalTrade ==
    /\ pc = "signal_trade"
    /\ LET signal == cyc.signals[cyc.i]
       IN  /\ \E success \in BOOLEAN :
                IF success
                THEN /\ cyc' = Logged([cyc EXCEPT
                                         !.submitted = @ \cup {signal},
                                         !.executed = @ \cup
                                            {<<signal.symbol,
                                               signal.exchange_type>>}],
                                      "signal_trade")
                     /\ pc' = "signal_update"
                ELSE /\ cyc' = Logged([cyc EXCEPT
                                         !.submitted = @ \cup {signal},
                                         !.i = @ + 1],
                                      "signal_trade")
                     /\ pc' = AfterSignal(cyc)
           /\ BotStep("_execute_trade", signal.symbol, signal.exchange_type)
    /\ UNCHANGED <<riskVars, stratVars, running, cycle_count, pcStart,
                   activeCycles, now, fundVars>>

\* lines 372-376: the successful trade is recorded by the strategy
SignalUpdate ==
    /\ pc = "signal_update"
    /\ LET signal == cyc.signals[cyc.i]
       IN  update_positions(signal.symbol, signal.exchange_type, TradeResult)
    /\ cyc' = Logged([cyc EXCEPT !.i = @ + 1], "update_positions")
    /\ pc' = AfterSignal(cyc)
    /\ UNCHANGED <<running, cycle_count, pcStart, activeCycles>>

\* ---- bookkeeping and the end of the cycle

\* line 803: the portfolio refresh reports the realized PnL and the balance
\* to the risk manager, or raises
UpdatePortfolioState ==
    /\ pc = "update_portfolio"
    /\ \/ \E report \in PnlReports :
             LET updated == UpdatedDrawdown(peak_balance, current_drawdown,
                                            report.current_balance)
             IN  /\ daily_pnl' = UpdatedDailyPnl(daily_pnl,
                                                 report.realized_pnl)
                 /\ peak_balance' = updated[1]
                 /\ current_drawdown' = updated[2]
                 /\ cyc' = Logged(cyc, "bookkeeping")
                 /\ pc' = "alerts"
       \/ /\ cyc' = Logged([cyc EXCEPT !.raised = TRUE], "bookkeeping_failed")
          /\ pc' = "except"
          /\ UNCHANGED <<daily_pnl, peak_balance, current_drawdown, fundVars>>
    /\ BotStep("update_portfolio_state", "", "")
    /\ UNCHANGED <<positions, risk_alerts, previous_regime, stratVars,
                   running, cycle_count, pcStart, activeCycles, now, fundVars>>

\* line 806
GetRiskAlerts ==
    /\ pc = "alerts"
    /\ get_risk_alerts
    /\ cyc' = Logged(cyc, "alerts")
    /\ pc' = "finish"
    /\ UNCHANGED <<running, cycle_count, pcStart, activeCycles>>

\* lines 807-860: the notifications, each inside its own try, then the
\* cycle returns
FinishCycle ==
    /\ pc = "finish"
    /\ cyc' = Logged(cyc, "finish")
    /\ ReturnFromCycle
    /\ BotStep("cycle_end", "", "")
    /\ UNCHANGED <<riskVars, stratVars, running, cycle_count, now, fundVars>>

\* lines 862-880: the except clause of run_trading_cycle logs the error and
\* calls self.telegram.send_error_log; without the attribute the call raises
\* AttributeError, which leaves run_trading_cycle
CycleExcept ==
    /\ pc = "except"
    /\ cyc' = Logged(cyc, "except")
    /\ pc' = "idle"
    /\ activeCycles' = activeCycles - 1
    /\ pcStart' = IF has_telegram
                  THEN (IF pcStart = "awaiting" THEN "sleeping" ELSE pcStart)
                  ELSE "failed"
    /\ BotStep("cycle_except", "", "")
    /\ UNCHANGED <<riskVars, stratVars, running, cycle_count, now, fundVars>>

Next ==
    \/ Start \/ LaunchCycle \/ Sleep \/ StartExcept
    \/ CycleBegin \/ CollectMarketData \/ GetPortfolioSummary
    \/ AnalyzeMarketOpportunity \/ CheckRebalancing
    \/ GenerateRebalancingOrders \/ ExecuteRebalancingOrder
    \/ GeneratePortfolioSignals \/ MonitorRisk \/ SignalCheck
    \/ SignalTrade \/ SignalUpdate \/ UpdatePortfolioState
    \/ GetRiskAlerts \/ FinishCycle \/ CycleExcept

Spec == Init /\ [][Next]_vars

----------------------------------------------------------------------------
(* SpecSignals: the bot with generate_portfolio_signals computed from the  *)
(* opportunities, hybrid_portfolio_strategy.py:205-477.                    *)

\* 'priority' of the signals of a strategy, lines 279-467
StrategyPriority(strategy) ==
    CASE strategy = "arbitrage" -> 1
      [] strategy = "trend_following" -> 2
      [] strategy = "hedging" -> 3
      [] OTHER -> 4

\* a signal as the strategy appends it
StrategySignal(strategy, symbol, exchange_type, action, size, confidence) ==
    [strategy |-> strategy, symbol |-> symbol, exchange_type |-> exchange_type, action |-> action, size |-> size, confidence |-> confidence, priority |-> StrategyPriority(strategy)]

\* list.sort(key=lambda x: x['priority']), line 471: a stable sort
RECURSIVE InsertByPriority(_, _)
InsertByPriority(sorted, signal) ==
    IF sorted = <<>> THEN <<signal>>
    ELSE IF sorted[Len(sorted)].priority <= signal.priority
    THEN Append(sorted, signal)
    ELSE Append(InsertByPriority(SubSeq(sorted, 1, Len(sorted) - 1), signal), sorted[Len(sorted)])
RECURSIVE SortByPriority(_)
SortByPriority(signals) ==
    IF signals = <<>> THEN <<>>
    ELSE InsertByPriority(SortByPriority(SubSeq(signals, 1, Len(signals) - 1)), signals[Len(signals)])

\* generate_portfolio_signals, lines 205-477: the signals of the arbitrage,
\* trend, hedging and momentum opportunities are appended in this order,
\* sorted by priority and cut to ten.  An opportunity is given by the
\* signals it contributes.
generate_portfolio_signals(opportunities) ==
    Prefix(SortByPriority(opportunities.arbitrage \o opportunities.trend_following \o opportunities.hedging \o opportunities.momentum), 10)

NoOpportunities ==
    [arbitrage |-> <<>>, trend_following |-> <<>>, hedging |-> <<>>, momentum |-> <<>>]
\* twelve signals: two of arbitrage, four of trend, two hedges and four of
\* momentum
ManyOpportunities ==
    [arbitrage |-> <<StrategySignal("arbitrage", "BTC/USDT", "spot", "buy", 4, 20),
                     StrategySignal("arbitrage", "BTC/USDT:USDT", "futures", "sell", 4, 20)>>,
     trend_following |-> <<StrategySignal("trend_following", "BTC/USDT", "spot", "buy", 4, 80),
                           StrategySignal("trend_following", "BTC/USDT:USDT", "futures", "buy", 4, 80),
                           StrategySignal("trend_following", "ETH/USDT", "spot", "buy", 4, 30),
                           StrategySignal("trend_following", "ETH/USDT:USDT", "futures", "buy", 4, 30)>>,
     hedging |-> <<StrategySignal("hedging", "BTC/USDT", "futures", "sell", 3, 50),
                   StrategySignal("hedging", "ETH/USDT", "futures", "sell", 3, 50)>>,
     momentum |-> <<StrategySignal("momentum", "BTC/USDT", "spot", "buy", 4, 60),
                    StrategySignal("momentum", "BTC/USDT:USDT", "futures", "buy", 4, 60),
                    StrategySignal("momentum", "ETH/USDT", "spot", "buy", 4, 55),
                    StrategySignal("momentum", "ETH/USDT:USDT", "futures", "buy", 4, 55)>>]
FewOpportunities ==
    [arbitrage |-> <<>>,
     trend_following |-> <<StrategySignal("trend_following", "ETH/USDT", "spot", "buy", 4, 70)>>,
     hedging |-> <<StrategySignal("hedging", "BTC/USDT", "futures", "sell", 3, 50)>>,
     momentum |-> <<StrategySignal("momentum", "BTC/USDT", "spot", "buy", 4, 60)>>]
OpportunityInputs == {NoOpportunities, ManyOpportunities, FewOpportunities}

\* line 294 with the list computed from the opportunities of line 275
GenerateSignals ==
    /\ pc = "signals"
    /\ \E opportunities \in OpportunityInputs :
          LET signals == generate_portfolio_signals(opportunities)
          IN  cyc' = Logged([cyc EXCEPT !.signals = signals,
                                        !.generated = signals], "signals")
    /\ pc' = "monitor"
    /\ BotStep("generate_portfolio_signals", "", "")
    /\ UNCHANGED <<riskVars, stratVars, running, cycle_count, pcStart,
                   activeCycles, now, fundVars>>

\* the cycles explored with the computed signal lists
SignalCycles == 1
NextSignals ==
    \/ Start \/ LaunchCycle \/ Sleep \/ StartExcept
    \/ CycleBegin /\ cycle_count' <= SignalCycles
    \/ CollectMarketData \/ GetPortfolioSummary
    \/ AnalyzeMarketOpportunity \/ CheckRebalancing
    \/ GenerateRebalancingOrders \/ ExecuteRebalancingOrder
    \/ GenerateSignals \/ MonitorRisk \/ SignalCheck
    \/ SignalTrade \/ SignalUpdate \/ UpdatePortfolioState
    \/ GetRiskAlerts \/ FinishCycle \/ CycleExcept
SpecSignals == Init /\ [][NextSignals]_vars

----------------------------------------------------------------------------
(* SpecArbitrage: the arbitrage part of generate_portfolio_signals,        *)
(* hybrid_portfolio_strategy.py:205-326 and 470-477, applied to lists of   *)
(* arbitrage opportunities and free balances drawn from bounded sets, the  *)
(* other opportunity lists being empty.  Prices and amounts are cents,     *)
(* balances dollars, confidence hundredths, expected_profit basis points,  *)
(* quantities fractions of a coin.                                         *)

\* self.futures_supported_symbols, lines 47-51
futures_supported_symbols ==
    {"BTC/USDT", "ETH/USDT", "BNB/USDT", "XRP/USDT", "SOL/USDT", "ADA/USDT", "AVAX/USDT", "LINK/USDT", "TRX/USDT"}

\* a local variable not assigned yet, and one holding a quantity
Unbound == [bound |-> FALSE]
Bound(quantity) == [bound |-> TRUE, value |-> quantity]

\* min(free_balance * 0.8, 100) in cents, or 0 below $5; lines 231-239
MaxAmount(free_balance) ==
    IF free_balance < 5 THEN 0
    ELSE IF free_balance * 80 < 10000 THEN free_balance * 80 ELSE 10000

\* _calculate_safe_quantity as a fraction of a coin
SafeQuantity(symbol, max_amount, price) ==
    Size(calculate_safe_quantity(symbol, max_amount, price), PowerOfTen(QuantityDecimals(symbol)))

\* the signals an opportunity adds, lines 265-318
ArbitrageLegs(arb, spot_quantity, futures_quantity) ==
    LET long == arb.opportunity_type = "long_spot_short_futures"
        leg(strategy, symbol, exchange_type, action, size) ==
            [strategy |-> strategy, symbol |-> symbol, exchange_type |-> exchange_type, action |-> action, size |-> size,
             confidence |-> arb.confidence, expected_return |-> arb.expected_profit, priority |-> 1]
    IN  IF arb.symbol \in futures_supported_symbols
        THEN <<leg("arbitrage", arb.symbol, "spot", IF long THEN "buy" ELSE "sell", spot_quantity),
               leg("arbitrage", FuturesSymbol(arb.symbol), "futures", IF long THEN "sell" ELSE "buy", futures_quantity)>>
        ELSE <<leg("arbitrage_spot_only", arb.symbol, "spot", IF long THEN "buy" ELSE "sell", spot_quantity)>>

\* the body of the loop of line 224 for one opportunity: with confidence of
\* 0.25 or more the quantities are computed (lines 228-260), and the
\* signals are appended in the else branch of that test (lines 261-318),
\* from the quantities an earlier opportunity left or from none
ArbitrageStep(loc, arb, spot_free_balance, futures_free_balance) ==
    LET max_spot_amount    == MaxAmount(spot_free_balance)
        max_futures_amount == MaxAmount(futures_free_balance)
    IN  IF loc.raised THEN loc
        ELSE IF arb.confidence >= 25
        THEN IF max_spot_amount < 500 /\ max_futures_amount < 500 THEN loc
             ELSE [loc EXCEPT !.spot_quantity = Bound(SafeQuantity(arb.symbol, max_spot_amount, arb.spot_price)),
                              !.futures_quantity = Bound(SafeQuantity(arb.symbol, max_futures_amount, arb.futures_price))]
        ELSE IF ~loc.spot_quantity.bound THEN [loc EXCEPT !.raised = TRUE]
        ELSE [loc EXCEPT !.signals = @ \o ArbitrageLegs(arb, loc.spot_quantity.value, loc.futures_quantity.value)]

\* sorted(..., key=expected_profit, reverse=True), line 224: a stable sort
RECURSIVE InsertByProfit(_, _)
InsertByProfit(sorted, arb) ==
    IF sorted = <<>> THEN <<arb>>
    ELSE IF sorted[Len(sorted)].expected_profit >= arb.expected_profit
    THEN Append(sorted, arb)
    ELSE Append(InsertByProfit(SubSeq(sorted, 1, Len(sorted) - 1), arb), sorted[Len(sorted)])
RECURSIVE SortByProfit(_)
SortByProfit(opportunities) ==
    IF opportunities = <<>> THEN <<>>
    ELSE InsertByProfit(SortByProfit(SubSeq(opportunities, 1, Len(opportunities) - 1)), opportunities[Len(opportunities)])

RECURSIVE ArbitrageLoop(_, _, _, _)
ArbitrageLoop(loc, opportunities, spot_free_balance, futures_free_balance) ==
    IF opportunities = <<>> THEN loc
    ELSE ArbitrageLoop(ArbitrageStep(loc, Head(opportunities), spot_free_balance, futures_free_balance), Tail(opportunities), spot_free_balance, futures_free_balance)

\* generate_portfolio_signals for arbitrage opportunities alone: [] below
\* $5 on both accounts (line 218) and from the except clause (475-477)
generate_arbitrage_signals(arbitrage_opportunities, spot_free_balance, futures_free_balance) ==
    LET loc == ArbitrageLoop([signals |-> <<>>, spot_quantity |-> Unbound, futures_quantity |-> Unbound, raised |-> FALSE],
                             SortByProfit(arbitrage_opportunities), spot_free_balance, futures_free_balance)
    IN  IF spot_free_balance < 5 /\ futures_free_balance < 5 THEN <<>>
        ELSE IF loc.raised THEN <<>>
        ELSE Prefix(SortByPriority(loc.signals), 10)

\* opportunities of BTC ($30000 / $30030) and of DOT ($7.00 / $7.01), which
\* has no futures
ArbitrageInput(symbol, opportunity_type, expected_profit, confidence) ==
    [symbol |-> symbol, opportunity_type |-> opportunity_type, spot_price |-> IF symbol = "BTC/USDT" THEN 3000000 ELSE 700,
     futures_price |-> IF symbol = "BTC/USDT" THEN 3003000 ELSE 701, expected_profit |-> expected_profit, confidence |-> confidence]
ArbitrageOpportunities ==
    {ArbitrageInput("BTC/USDT", "long_spot_short_futures", 10, 100),
     ArbitrageInput("BTC/USDT", "short_spot_long_futures", 10, 100),
     ArbitrageInput("BTC/USDT", "short_spot_long_futures", 1, 20),
     ArbitrageInput("BTC/USDT", "long_spot_short_futures", 20, 20),
     ArbitrageInput("DOT/USDT", "long_spot_short_futures", 1, 20),
     ArbitrageInput("DOT/USDT", "long_spot_short_futures", 10, 100)}
ArbitrageLists == {<<>>} \cup {<<arb>> : arb \in ArbitrageOpportunities} \cup {<<first, second>> : first \in ArbitrageOpportunities, second \in ArbitrageOpportunities}
FreeBalances == {4, 100, 1000}

ArbitrageCall ==
    \E opportunities \in ArbitrageLists, spot_free_balance \in FreeBalances, futures_free_balance \in FreeBalances :
        /\ lastCall' = FunctionCall("generate_portfolio_signals", <<opportunities, spot_free_balance, futures_free_balance>>)
        /\ lastReturned' = generate_arbitrage_signals(opportunities, spot_free_balance, futures_free_balance)
        /\ UNCHANGED <<riskVars, stratVars, botVars, now, reductions, undelivered, fundVars>>

NextArbitrage == ArbitrageCall
SpecArbitrage == Init /\ [][NextArbitrage]_vars

----------------------------------------------------------------------------
(* SpecCycleRisk: the bot with a risk manager that holds a position before *)
(* start(), so that the monitor of a cycle reports more than level low.    *)

CycleRiskSymbols == {"BTC/USDT"}
CycleRiskSides == Sides
CycleRiskPrices == {9000, 11000}
CycleRiskAdd ==
    /\ pcStart = "init"
    /\ \E s \in CycleRiskSymbols, side \in CycleRiskSides,
          size \in RiskSizes, price \in EntryPrices :
           add_position(s, side, size, price, "futures", 0, 0)
CycleRiskUpdate ==
    /\ pcStart = "init"
    /\ \E s \in CycleRiskSymbols, price \in CycleRiskPrices :
           QueueRoom(s, price, RiskQueue) /\ update_position_risk(s, price)

\* the cycles explored with a position in the risk manager
CycleRiskCycles == 1
NextCycleRisk ==
    \/ Next /\ cycle_count' <= CycleRiskCycles
    \/ CycleRiskAdd
    \/ CycleRiskUpdate
SpecCycleRisk == Init /\ [][NextCycleRisk]_vars

----------------------------------------------------------------------------
(* Claims about the risk manager and the position tables.                  *)

\* C3: the automatic de-risking is idempotent: a second critical-level
\* response (_execute_automatic_responses, hence _reduce_risky_positions with
\* ratio 0.5) that follows the first with no price or position change in
\* between leaves every position's size as the first response left it.
C3_ReductionIdempotent ==
    [][(/\ lastCall.op = "_execute_automatic_responses"
        /\ lastCall.level = "critical"
        /\ lastCall'.op = "_execute_automatic_responses"
        /\ lastCall'.level = "critical")
       => \A s \in Symbols :
            Open(positions, s) => positions'[s].size = positions[s].size]_vars

\* C4: across price updates and real_time_risk_monitoring invocations the
\* stop-loss of an open position only moves in the protecting direction: the
\* stop of a buy position never decreases, a set stop of a sell position
\* never increases.
C4_StopOnlyProtects ==
    [][lastCall'.op \in {"update_position_risk", "real_time_risk_monitoring"}
       => \A s \in Symbols :
            Open(positions, s) =>
                IF positions[s].side = "buy"
                THEN positions'[s].stop_loss_price >= positions[s].stop_loss_price
                ELSE positions[s].stop_loss_price # 0 =>
                     positions'[s].stop_loss_price <= positions[s].stop_loss_price]_vars

\* C5: the alert queue is drain-on-read: every get_risk_alerts returns exactly
\* the alerts appended since the previous get_risk_alerts (so each alert is
\* returned by the next call and by no later one) and leaves the queue empty.
C5_DrainOnRead ==
    [][lastCall'.op = "get_risk_alerts"
       => /\ lastReturned' = undelivered
          /\ risk_alerts' = <<>>]_vars

\* a read that returned two alerts of different kinds
C5_Witness ==
    /\ lastCall.op = "get_risk_alerts"
    /\ Len(lastReturned) >= 2
    /\ \E i, j \in DOMAIN lastReturned :
          /\ lastReturned[i].type = "emergency_stop"
          /\ lastReturned[j].type \in {"stop_loss", "take_profit", "timeout"}
    /\ risk_alerts = <<>>

\* the risk manager holds an open position of the symbol in the market
RiskHas(pos, symbol, exchange_type) ==
    pos[symbol] # NoPos /\ pos[symbol].exchange_type = exchange_type

\* C7: positions are tracked per (symbol, market): a trade on a symbol in one
\* market leaves the position of the same symbol in the other market intact,
\* in the risk manager's table and in the strategy's table.
C7_OnePositionPerPair ==
    [][\A s \in Symbols, m \in Markets :
         /\ (/\ RiskHas(positions, s, m)
             /\ lastCall'.op = "add_position"
             /\ lastCall'.symbol = s
             /\ lastCall'.exchange_type # m)
            => RiskHas(positions', s, m)
         /\ (/\ current_positions[m][s] # NoTrade
             /\ lastCall'.op = "update_positions"
             /\ lastCall'.symbol = s
             /\ lastCall'.exchange_type # m)
            => current_positions'[m][s] = current_positions[m][s]]_vars

----------------------------------------------------------------------------
(* Claims about the trading cycle.                                         *)

\* C1: a failure of a step of run_trading_cycle is contained: the bot does
\* not leave its loop because of it, so once a step of the cycle has raised,
\* running is still true.
C1_CycleErrorContained == cyc.raised => running

\* the daily-loss limit or the maximum drawdown is breached, for the balance
\* of the cycle's portfolio snapshot
LimitBreached ==
    \/ DailyLossBreached(daily_pnl, cyc.portfolio.current_balance)
    \/ DrawdownBreached(current_drawdown)

\* C2: every order passed to _execute_trade, a strategy signal or a
\* rebalancing order, was accepted by validate_trade in the same cycle, and
\* none is passed while the daily-loss limit or the maximum drawdown is
\* breached.
C2_OnlyValidatedOrders ==
    [][lastCall'.op = "_execute_trade"
       => /\ cyc'.submitted \subseteq cyc'.accepted
          /\ ~LimitBreached]_vars

C8_CyclesNeverOverlap == activeCycles <= 1

\* the second cycle is executing a signal after the first one returned
C8_Witness ==
    /\ cycle_count = 2
    /\ activeCycles = 1
    /\ pc = "signal_trade"
    /\ pcStart = "awaiting"

\* the place of a step in the order snapshot, opportunity detection, signal
\* generation, sizing / risk check and signal execution (signal by signal),
\* rebalance, bookkeeping
ClaimedRank(tag) ==
    CASE tag \in {"snapshot", "snapshot_empty", "portfolio",
                  "portfolio_failed"} -> 1
      [] tag = "opportunities" -> 2
      [] tag = "signals" -> 3
      [] tag \in {"monitor", "risk_check", "signal_skipped", "signal_trade",
                  "update_positions"} -> 4
      [] tag \in {"check_rebalancing", "generate_orders",
                  "rebalance_order"} -> 5
      [] OTHER -> 6

\* C9: within one cycle the steps occur in the order snapshot, opportunity
\* detection, signal generation, sizing / risk check, signal execution,
\* rebalance, bookkeeping: no step of the cycle is followed by a step that
\* comes earlier in this order, so no rebalancing order is executed before
\* the cycle's signals have been generated, risk-checked and executed.
C9_StepsInClaimedOrder ==
    \A j, k \in DOMAIN cyc.log :
        j < k => ClaimedRank(cyc.log[j]) <= ClaimedRank(cyc.log[k])

\* C10: a failed rebalancing leaves the rebalancer's state unchanged: when a
\* cycle in which every generated rebalancing order failed has ended,
\* last_rebalance has the value it had as the cycle started.
C10_FailedRebalanceKeepsStamp ==
    (/\ pc = "idle"
     /\ cyc.orders # <<>>
     /\ cyc.failed = {cyc.orders[k] : k \in DOMAIN cyc.orders})
        => last_rebalance = cyc.rebalance_before

----------------------------------------------------------------------------
(* SpecRebalance: check_rebalancing_needed called with portfolio states    *)
(* and clock readings drawn from bounded sets; last_rebalance keeps the    *)
(* value of construction.                                                  *)


RebalanceTotals == {50, 100, 200, 1000}
RebalanceSpotPcts == {38, 40, 42, 44, 60}
RebalanceFuturesPcts == {40, 56, 60, 62}
RebalanceInputs ==
    {[total_balance |-> t, spot_balance |-> (t * s) \div 100,
      futures_balance |-> (t * f) \div 100] :
        t \in RebalanceTotals, s \in RebalanceSpotPcts,
        f \in RebalanceFuturesPcts}
RebalanceClocks == {0, 15, 16}

RebalanceCheck ==
    \E portfolio_state \in RebalanceInputs, clock \in RebalanceClocks :
        /\ now' = clock
        /\ lastCall' = FunctionCall("check_rebalancing_needed",
                                    <<portfolio_state>>)
        /\ lastReturned' = check_rebalancing_needed(portfolio_state,
                                                    last_rebalance, clock)
        /\ UNCHANGED <<riskVars, stratVars, botVars, reductions, undelivered, fundVars>>

NextRebalance == RebalanceCheck
SpecRebalance == Init /\ [][NextRebalance]_vars

\* a ratio balance / total_balance and its distance from a target, in
\* hundredths of a percent
RatioBp(balance, total_balance) == (balance * 10000) \div total_balance
DeviationBp(balance, total_balance, target_pct) ==
    Abs(RatioBp(balance, total_balance) - target_pct * 100)

\* condition (a): the spot or the futures ratio is off target by more than
\* the threshold and the total balance is at least the floor of 20 dollars
DeviationTrigger(p) ==
    /\ \/ DeviationBp(p.spot_balance, p.total_balance, spot_allocation_pct)
            > rebalance_threshold_pct * 100
       \/ DeviationBp(p.futures_balance, p.total_balance,
                      futures_allocation_pct)
            > rebalance_threshold_pct * 100
    /\ p.total_balance >= 20

\* condition (b): more than the interval has elapsed since last_rebalance
\* and the spot deviation exceeds half the threshold
TimeTrigger(p) ==
    /\ now - last_rebalance > rebalance_interval_minutes
    /\ 2 * DeviationBp(p.spot_balance, p.total_balance, spot_allocation_pct)
          > rebalance_threshold_pct * 100

----------------------------------------------------------------------------
(* C12: the risk level of a cycle sets that cycle's acceptance threshold.  *)

\* the signal the loop of line 338 is at
CurrentSignal == cyc.signals[cyc.i]
\* _execute_trade is called for the signal the loop is at
ExecutesSignal == pc = "signal_trade" /\ lastCall'.op = "_execute_trade"

\* C12: a signal passed to _execute_trade in a cycle has confidence of at
\* least 0.6 when the cycle's risk level is high, at least 0.8 and a place
\* among the first two signals when it is critical, and at least 0.25 at
\* every other level
C12_ThresholdFollowsRiskLevel ==
    [][ExecutesSignal =>
          /\ cyc.risk_level = "high" => CurrentSignal.confidence >= 60
          /\ cyc.risk_level = "critical" =>
                 CurrentSignal.confidence >= 80 /\ cyc.i <= 2
          /\ cyc.risk_level \notin {"high", "critical"} =>
                 CurrentSignal.confidence >= 25]_vars
\* a signal was executed in a cycle whose risk level is high
C12_Witness ==
    /\ cyc.risk_level = "high"
    /\ lastCall.op = "_execute_trade"
    /\ cyc.submitted # {}
    /\ \E o \in cyc.submitted : o.strategy = "signal" /\ o.confidence >= 60

----------------------------------------------------------------------------
(* C13: signals are attempted in priority order, five at most.             *)

\* the list is in non-decreasing order of priority
ByPriority(signals) ==
    \A j, k \in DOMAIN signals : j < k => signals[j].priority <= signals[k].priority

\* C13: the list generate_portfolio_signals returns is sorted by priority
\* ascending and has at most 10 entries; every signal the loop of a cycle
\* handles is one of the first 5 of that list, at its place in the list,
\* and the loop moves through the list in order
C13_PriorityOrder ==
    [][/\ (pc = "signals" /\ pc' = "monitor") =>
              ByPriority(cyc'.generated) /\ Len(cyc'.generated) <= 10
       /\ pc = "signal_check" =>
              /\ cyc.i <= 5 /\ cyc.i <= Len(cyc.generated)
              /\ CurrentSignal = cyc.generated[cyc.i]
              /\ cyc'.i \in {cyc.i, cyc.i + 1}
              /\ cyc'.generated = cyc.generated]_vars
\* the fifth signal of a returned list of ten, of priorities 1 to 4, was
\* attempted after signals of priority 1
C13_Witness ==
    /\ Len(cyc.generated) = 10
    /\ cyc.generated[1].priority < cyc.generated[10].priority
    /\ cyc.i = 5
    /\ lastCall.op = "_execute_trade"
    /\ "signal_skipped" \in {cyc.log[j] : j \in DOMAIN cyc.log}

----------------------------------------------------------------------------
(* C14: what the monitor and its automatic responses change in a position. *)

\* a step of real_time_risk_monitoring or of _execute_automatic_responses
RespondsAtLevel(levels) ==
    /\ lastCall'.op \in {"real_time_risk_monitoring", "_execute_automatic_responses"}
    /\ lastCall'.level \in levels
\* the position but for its stop-loss
WithoutStop(p) == [p EXCEPT !.stop_loss_price = 0]

\* C14: a size changes only at level critical and only for a position that
\* loses more than 5%, and it is then halved; at level high no size changes
\* and every stop-loss becomes 0.97 (buy) or 1.03 (sell) of the current
\* price; at level low or medium no position changes but for the trailing
\* stop of a position more than 5% in profit
C14_ResponsesByLevel ==
    [][\A s \in Symbols : Open(positions, s) =>
          /\ RespondsAtLevel({"low", "medium", "high", "critical", "unknown"}) =>
                 /\ Open(positions', s)
                 /\ positions'[s].size # positions[s].size =>
                        lastCall'.level = "critical" /\ LossBelow(positions[s], 5)
          /\ RespondsAtLevel({"critical"}) /\ LossBelow(positions[s], 5) =>
                 2 * positions'[s].size = positions[s].size
          /\ RespondsAtLevel({"high"}) =>
                 100 * positions'[s].stop_loss_price =
                    (IF positions[s].side = "buy" THEN 97 ELSE 103) * positions[s].current_price
          /\ RespondsAtLevel({"low", "medium"}) =>
                 /\ WithoutStop(positions'[s]) = WithoutStop(positions[s])
                 /\ ~ProfitAbove(positions[s], 5) => positions'[s] = positions[s]]_vars
\* a response to level critical has halved a losing position, and the
\* monitor has now found level high and tightened the stop of a losing
\* position
C14_Witness ==
    /\ reductions > 0
    /\ lastCall.op = "real_time_risk_monitoring"
    /\ lastCall.level = "high"
    /\ \E s \in Symbols :
          /\ Open(positions, s) /\ LossBelow(positions[s], 5)
          /\ positions[s].stop_loss_price # 0

----------------------------------------------------------------------------
(* C15: the overall risk level is monotonic in the component levels.       *)

\* low < medium < high < critical
LevelRank(level) ==
    CASE level = "low" -> 1
      [] level = "medium" -> 2
      [] level = "high" -> 3
      [] level = "critical" -> 4
\* the second list is the first with the level of one component raised
RaisesOneComponent(before, after) ==
    \E i \in DOMAIN before :
        /\ LevelRank(after[i]) > LevelRank(before[i])
        /\ \A j \in DOMAIN before : j # i => after[j] = before[j]

\* C15: of two calls of _calculate_overall_risk_level of which the second
\* has the level of a single component raised and the other components as
\* they were, the second returns a level that is not lower than the first
C15_OverallMonotonic ==
    [][(/\ lastCall.op = "_calculate_overall_risk_level"
        /\ lastCall'.op = "_calculate_overall_risk_level"
        /\ RaisesOneComponent(lastCall.args[1], lastCall'.args[1]))
       => LevelRank(lastReturned') >= LevelRank(lastReturned)]_vars
\* a call returned high for components of which one is critical: lowering
\* that one to high is a call that returns medium
C15_Witness ==
    /\ lastCall.op = "_calculate_overall_risk_level"
    /\ lastCall.args[1] = <<"medium", "low", "high", "high", "critical">>
    /\ lastReturned = "high"

----------------------------------------------------------------------------
(* C16, C17: the notional of the size _apply_safety_limits returns.        *)

\* the size times the price is at most / at least the amount in dollars
NotionalAtMost(size, price, cents) == size.num * price * 100 <= cents * size.den
NotionalAtLeast(size, price, cents) == size.num * price * 100 >= cents * size.den
AppliesSafetyLimits == lastCall.op = "_apply_safety_limits"

\* C16: for a positive price the size _apply_safety_limits returns has a
\* notional of at most balance x max_position_size and of at most
\* balance x risk_per_trade, under every configuration of the two
C16_CappedNotional ==
    (AppliesSafetyLimits /\ lastCall.args[3] > 0) =>
        /\ NotionalAtMost(lastReturned, lastCall.args[3], lastCall.args[2] * lastCall.args[4])
        /\ NotionalAtMost(lastReturned, lastCall.args[3], lastCall.args[2] * lastCall.args[5])

\* C17: a size _apply_safety_limits returns is 0 or has a notional, after
\* the caps, of at least the $10 minimum
C17_MinimumNotional ==
    AppliesSafetyLimits =>
        \/ lastReturned.num = 0
        \/ NotionalAtLeast(lastReturned, lastCall.args[3], 10 * 100)

----------------------------------------------------------------------------
(* C18, C19: the notional of the quantity _calculate_safe_quantity returns. *)

CalculatesSafeQuantity == lastCall.op = "_calculate_safe_quantity"
\* the returned quantity times the price, and an amount in cents, both in
\* units of 10^-decimals of a cent
ReturnedNotional == lastReturned * lastCall.args[3]
ScaledAmount(cents) == cents * PowerOfTen(QuantityDecimals(lastCall.args[1]))

\* C18: a quantity _calculate_safe_quantity returns is 0 or has, as
\* rounded, a notional of at least the $5 minimum; and it is 0 whenever
\* price <= 0 or max_amount <= 0
C18_MinimumNotional ==
    CalculatesSafeQuantity =>
        /\ lastReturned = 0 \/ ReturnedNotional >= ScaledAmount(5 * 100)
        /\ (lastCall.args[3] <= 0 \/ lastCall.args[2] <= 0) => lastReturned = 0

\* C19: the quantity _calculate_safe_quantity returns for a positive amount
\* and price is rounded down: its notional never exceeds max_amount
C19_NeverRoundsUp ==
    (CalculatesSafeQuantity /\ lastCall.args[2] > 0 /\ lastCall.args[3] > 0) =>
        ReturnedNotional <= ScaledAmount(lastCall.args[2])

----------------------------------------------------------------------------
(* C20: the Kelly fraction is clamped to [0, 0.25].                        *)

\* C20: for every win rate in [0, 1] and every regime label the fraction
\* _calculate_dynamic_kelly returns is at least 0 and at most 0.25; for a
\* win rate of 0.58 in a trending regime the fraction of line 289 is 0.37
\* and the value returned is 0.25
C20_KellyClamped ==
    lastCall.op = "_calculate_dynamic_kelly" =>
        /\ lastReturned.num >= 0
        /\ 4 * lastReturned.num <= lastReturned.den
        /\ lastCall.args = <<58, "trending">> =>
               /\ 100 * KellyFraction(58, "trending").num = 37 * KellyFraction(58, "trending").den
               /\ 100 * lastReturned.num = 25 * lastReturned.den
\* the call with win rate 0.58 in a trending regime returned 0.25
C20_Witness ==
    /\ lastCall.op = "_calculate_dynamic_kelly"
    /\ lastCall.args = <<58, "trending">>
    /\ 4 * lastReturned.num = lastReturned.den

----------------------------------------------------------------------------
(* C21, C22: adaptive_position_sizing and calculate_position_size.         *)

SizingCall == lastCall.op \in {"adaptive_position_sizing", "calculate_position_size"}
\* two consecutive calls of one sizing function with the same arguments
\* under the same position table
RepeatsSizing == SizingCall /\ lastCall' = lastCall /\ positions' = positions

\* C21: two calls of adaptive_position_sizing (or calculate_position_size)
\* with the same symbol, signal strength, balance, price, market conditions
\* and position table return the same size.
C21_Deterministic == [][RepeatsSizing => SameSize(lastReturned', lastReturned)]_vars

LacksKey == ~(ConditionKeys \subseteq DOMAIN lastCall.args[5])
\* C22: adaptive_position_sizing never raises; it returns a number for every
\* input, and when market_conditions lacks a key it returns 1% of the
\* balance divided by the price, or 0 when the price is 0.
C22_NeverRaises ==
    lastCall.op = "adaptive_position_sizing" =>
        /\ lastReturned # Raised
        /\ lastReturned.den > 0
        /\ LacksKey =>
            IF lastCall.args[4] = 0 THEN lastReturned = ZeroSize
            ELSE SameSize(lastReturned, Size(lastCall.args[3], 100 * lastCall.args[4]))
\* a call whose market_conditions lacks a key, at a positive balance and
\* price, returns the positive fallback size
C22_Witness ==
    /\ lastCall.op = "adaptive_position_sizing"
    /\ LacksKey
    /\ lastCall.args[3] > 0
    /\ lastCall.args[4] > 0
    /\ lastReturned.num > 0

----------------------------------------------------------------------------
(* C23: collect_market_data under partial failure.                         *)

Collected == lastCall.op = "collect_market_data" /\ lastReturned.returned
Succeeded == {s \in TradingSymbols : lastCall.args[1][s] = "data"}

\* C23: whichever fetches raise or return empty data, collect_market_data
\* completes, and the snapshot it returns holds exactly the symbols whose
\* fetch succeeded, each with the data of its own fetch.
SnapshotOfSucceeded ==
    Collected =>
        /\ DOMAIN lastReturned.market_data = Succeeded
        /\ \A s \in Succeeded : lastReturned.market_data[s] = fetch_symbol_data(s, "data")
C23_PartialFailure == []SnapshotOfSucceeded /\ (Gathering ~> Collected)
\* a snapshot of one symbol after one fetch raised and one returned empty
\* candles
C23_Witness ==
    /\ Collected
    /\ Cardinality(Succeeded) = 1
    /\ \E s \in TradingSymbols : lastCall.args[1][s] = "raises"
    /\ \E s \in TradingSymbols : lastCall.args[1][s] = "empty"
    /\ DOMAIN lastReturned.market_data = Succeeded

----------------------------------------------------------------------------
(* C24: a failed _execute_trade in the loop of the signals.                *)

\* _execute_trade of the signal at index i returns a failure result, from a
\* return statement or from its except clause
FailedTrade ==
    /\ pc = "signal_trade"
    /\ lastCall'.op = "_execute_trade"
    /\ pc' # "signal_update"
\* the loop goes on with the signal after index i, if there is one
LoopGoesOn ==
    /\ cyc'.i = cyc.i + 1
    /\ cyc'.signals = cyc.signals
    /\ cyc.i < Len(cyc.signals) => pc' = "signal_check"
FailureAddsNothing ==
    /\ cyc'.executed = cyc.executed
    /\ positions' = positions
    /\ current_positions' = current_positions

\* C24: a failed _execute_trade aborts only its own signal: the loop goes on
\* with the next signal, every signal that validate_trade accepts is passed
\* to _execute_trade whatever happened to the ones before it, and the
\* failed signal adds nothing to executed_trades or to the position tables.
C24_FailureIsolated ==
    /\ [][FailedTrade => LoopGoesOn /\ FailureAddsNothing]_vars
    /\ [](pc # "signal_trade" => cyc.accepted \subseteq cyc.submitted)
\* the second signal of a cycle is executed after the trade of the first one
\* failed
C24_Witness ==
    /\ pc = "signal_update"
    /\ cyc.i = 2
    /\ cyc.signals[1] \in cyc.submitted
    /\ <<cyc.signals[1].symbol, cyc.signals[1].exchange_type>> \notin cyc.executed
    /\ <<cyc.signals[2].symbol, cyc.signals[2].exchange_type>> \in cyc.executed

----------------------------------------------------------------------------
(* C25, C26, C27: analyze_market_opportunity.                              *)

Analyzed == lastCall.op = "analyze_market_opportunity"
Snapshot == lastCall.args[1]
Priced(s) ==
    /\ s \in DOMAIN Snapshot
    /\ Snapshot[s].spot_last.kind = "number" /\ Snapshot[s].spot_last.value > 0
    /\ Snapshot[s].futures_last.kind = "number" /\ Snapshot[s].futures_last.value > 0
OpportunitiesOf(list, s) == {i \in DOMAIN list : list[i].symbol = s}
\* |premium| > threshold, for premium = (futures - spot) / spot
AboveThreshold(s) ==
    Abs(Snapshot[s].futures_last.value - Snapshot[s].spot_last.value) * 10000 > arbitrage_threshold_bp * Snapshot[s].spot_last.value

\* C25: for each symbol with positive spot and futures prices an arbitrage
\* opportunity is recorded iff |premium| > threshold, with confidence
\* min(|premium| / threshold, 1.0), which is 1.0, and direction
\* long_spot_short_futures when premium > 0 and short_spot_long_futures
\* otherwise.
C25_ArbitrageRule ==
    Analyzed =>
        \A s \in Symbols : Priced(s) =>
            /\ (OpportunitiesOf(lastReturned.arbitrage, s) # {}) <=> AboveThreshold(s)
            /\ \A i \in OpportunitiesOf(lastReturned.arbitrage, s) :
                  /\ lastReturned.arbitrage[i].confidence = Size(1, 1)
                  /\ lastReturned.arbitrage[i].opportunity_type = IF Snapshot[s].futures_last.value > Snapshot[s].spot_last.value THEN "long_spot_short_futures" ELSE "short_spot_long_futures"
\* spot 100 and futures 100.06 give an opportunity long_spot_short_futures
\* of confidence 1.0
C25_Witness ==
    /\ Analyzed
    /\ Priced("BTC/USDT")
    /\ Snapshot["BTC/USDT"].spot_last.value = 10000
    /\ Snapshot["BTC/USDT"].futures_last.value = 10006
    /\ \E i \in DOMAIN lastReturned.arbitrage :
          /\ lastReturned.arbitrage[i].symbol = "BTC/USDT"
          /\ lastReturned.arbitrage[i].confidence = Size(1, 1)
          /\ lastReturned.arbitrage[i].opportunity_type = "long_spot_short_futures"

BothBelow(s, level) == Snapshot[s].spot_rsi < level /\ Snapshot[s].futures_rsi < level
BothAbove(s, level) == Snapshot[s].spot_rsi > level /\ Snapshot[s].futures_rsi > level
\* C26: a momentum opportunity is recorded iff spot and futures RSI are both
\* < 40 or both > 60, and its type is oversold_bounce whenever both are < 40
\* and overbought_correction whenever both are > 60.
C26_MomentumRule ==
    Analyzed =>
        \A s \in Symbols : Priced(s) =>
            /\ (OpportunitiesOf(lastReturned.momentum, s) # {}) <=> (BothBelow(s, 40) \/ BothAbove(s, 60))
            /\ \A i \in OpportunitiesOf(lastReturned.momentum, s) :
                  /\ BothBelow(s, 40) => lastReturned.momentum[i].type = "oversold_bounce"
                  /\ BothAbove(s, 60) => lastReturned.momentum[i].type = "overbought_correction"

BadPrice(s) == s \in DOMAIN Snapshot /\ ~Priced(s)
AllOpportunities == lastReturned.arbitrage \o lastReturned.trend_following \o lastReturned.hedging \o lastReturned.momentum
SymbolsIn(list) == {list[i].symbol : i \in DOMAIN list}
----------------------------------------------------------------------------
(* C28, C29: generate_signals.                                             *)

GeneratedSignals == lastCall.op = "generate_signals"
Bundle == lastCall.args[1]
IndicatorNames == {"rsi", "macd", "bb", "stoch"}
\* the indicators of the bundle that are there with a number
NotMissing == {n \in IndicatorNames : Bundle[n].kind = "number"}
SignalOf(n) ==
    CASE n = "rsi" -> lastReturned.rsi_signal
      [] n = "macd" -> lastReturned.macd_signal
      [] n = "bb" -> lastReturned.bb_signal
      [] n = "stoch" -> lastReturned.stoch_signal
SignalSum(names) == SumOver(names, [n \in names |-> SignalOf(n)])
InUnitRange(fraction) == fraction.den > 0 /\ -fraction.den <= fraction.num /\ fraction.num <= fraction.den

\* C28 as claimed: combined_signal equals the arithmetic mean of the
\* signals of the indicators that are not missing, so it lies in [-1, 1];
\* with no valid indicator it is exactly 0.
C28_MeanOfPresent ==
    GeneratedSignals =>
        /\ NotMissing # {} => lastReturned.combined_signal.num * Cardinality(NotMissing) = SignalSum(NotMissing) * lastReturned.combined_signal.den
        /\ NotMissing = {} => lastReturned.combined_signal.num = 0
        /\ InUnitRange(lastReturned.combined_signal)
\* C28: combined_signal equals the arithmetic mean of the four per-indicator
\* signals (each in {-1, 0, +1}), a missing indicator counting with signal
\* 0, so it lies in [-1, 1]; with no valid indicator it is exactly 0, and
\* it is a number for every bundle.
C28_MeanOfFour ==
    GeneratedSignals =>
        /\ \A n \in IndicatorNames : SignalOf(n) \in {-1, 0, 1}
        /\ \A n \in IndicatorNames \ NotMissing : SignalOf(n) = 0
        /\ lastReturned.combined_signal.num * 4 = SignalSum(IndicatorNames) * lastReturned.combined_signal.den
        /\ NotMissing = {} => lastReturned.combined_signal.num = 0
        /\ InUnitRange(lastReturned.combined_signal)
\* RSI 25 alone in the bundle gives the combined signal 1/4
C28_Witness ==
    /\ GeneratedSignals
    /\ NotMissing = {"rsi"}
    /\ lastReturned.rsi_signal = 1
    /\ SameSize(lastReturned.combined_signal, Size(1, 4))

\* C29: rsi_signal is +1 iff RSI < oversold threshold, -1 iff RSI >
\* overbought threshold and 0 otherwise; an RSI equal to either threshold
\* gives 0, and a missing or NaN RSI gives 0.
C29_RsiSignal ==
    GeneratedSignals =>
        IF Bundle.rsi.kind = "number"
        THEN /\ lastReturned.rsi_signal = 1 <=> Bundle.rsi.value < rsi_oversold
             /\ lastReturned.rsi_signal = -1 <=> Bundle.rsi.value > rsi_overbought
             /\ lastReturned.rsi_signal \in {-1, 0, 1}
             /\ Bundle.rsi.value \in {rsi_oversold, rsi_overbought} => lastReturned.rsi_signal = 0
        ELSE lastReturned.rsi_signal = 0
\* an RSI at the oversold threshold gives 0
C29_Witness ==
    /\ GeneratedSignals
    /\ Bundle.rsi = Number(rsi_oversold)
    /\ lastReturned.rsi_signal = 0

----------------------------------------------------------------------------
(* C30: the correlation-risk measure of _monitor_correlation_risks.        *)

MonitoredTable == lastCall.args[1]
\* the pairwise estimates of the open positions, in tenths
PairwiseEstimates(pos) ==
    {LET a == CHOOSE x \in P : TRUE
         b == CHOOSE y \in P : y # a
     IN  EstimateCorrelation(a, b) : P \in PositionPairs(pos)}
\* every notional of the table multiplied by factor
Scaled(pos, factor) ==
    [s \in DOMAIN pos |-> IF pos[s] = NoPos THEN NoPos ELSE [pos[s] EXCEPT !.size = @ * factor]]
ScaleFactors == {2, 3}

\* C30: with two or more open positions the correlation measure lies
\* between the smallest and the largest pairwise estimate, so never above
\* 0.8, and multiplying every position's notional by the same positive
\* factor does not change the correlation risk level.
C30_WeightedAverage ==
    (lastCall.op = "_monitor_correlation_risks" /\ Cardinality(OpenSymbols(MonitoredTable)) >= 2) =>
        /\ \E low \in PairwiseEstimates(MonitoredTable) : low * lastReturned.correlation.den <= 10 * lastReturned.correlation.num
        /\ \E high \in PairwiseEstimates(MonitoredTable) : 10 * lastReturned.correlation.num <= high * lastReturned.correlation.den
        /\ 10 * lastReturned.correlation.num <= 8 * lastReturned.correlation.den
        /\ \A factor \in ScaleFactors : CorrelationRiskLevel(Scaled(MonitoredTable, factor)) = lastReturned.risk_level

----------------------------------------------------------------------------
(* C31: the level critical of real_time_risk_monitoring.                   *)

\* every input has been monitored: the call on the last one has returned
MonitoredAll == lastCall.op = "real_time_risk_monitoring" /\ lastCall.args = CriticalInput(CriticalInputCount - 1)
\* C31: there is a position table for which real_time_risk_monitoring
\* computes level critical from its five sub-assessments and fires the
\* automatic 50% reduction: once every table has been monitored, from no
\* position to two large, old, losing ones and under every change of
\* regime, the reduction has fired at least once.
C31_CriticalReachable == MonitoredAll => reductions > 0

----------------------------------------------------------------------------
(* C32: orders placed on the exchange and the bot's books.                 *)

\* _execute_trade has run and execute_smart_order has left an order on the
\* exchange
PlacedOrder == lastCall.op = "_execute_trade" /\ lastReturned.placed # <<>>
\* C32: whenever execute_smart_order places an order on the exchange for a
\* signal, the trade is stored and counted by _execute_trade, appended to
\* executed_trades and written to the strategy's position table.
C32_PlacedIsRecorded ==
    PlacedOrder =>
        /\ lastReturned.stored
        /\ lastReturned.executed
        /\ current_positions[lastCall.args[1].exchange_type][lastCall.args[1].symbol] # NoTrade

----------------------------------------------------------------------------
(* C33: the signals of an arbitrage opportunity.                           *)

\* the opportunity qualifies: confidence of 0.25 or more on a symbol with
\* futures, and positive safe quantities on both accounts
Qualifies(arb, spot_free_balance, futures_free_balance) ==
    /\ arb.confidence >= 25
    /\ arb.symbol \in futures_supported_symbols
    /\ spot_free_balance >= 5 /\ futures_free_balance >= 5
    /\ SafeQuantity(arb.symbol, MaxAmount(spot_free_balance), arb.spot_price).num > 0
    /\ SafeQuantity(arb.symbol, MaxAmount(futures_free_balance), arb.futures_price).num > 0
\* the returned list has the pair of the opportunity
HasPair(signals, arb) ==
    LET long == arb.opportunity_type = "long_spot_short_futures"
    IN  /\ \E i \in DOMAIN signals :
              /\ signals[i].symbol = arb.symbol /\ signals[i].exchange_type = "spot" /\ signals[i].priority = 1
              /\ signals[i].action = IF long THEN "buy" ELSE "sell"
        /\ \E i \in DOMAIN signals :
              /\ signals[i].symbol = FuturesSymbol(arb.symbol) /\ signals[i].exchange_type = "futures" /\ signals[i].priority = 1
              /\ signals[i].action = IF long THEN "sell" ELSE "buy"
\* C33: for every arbitrage opportunity with confidence >= 0.25 on a
\* futures-supported symbol, both free balances being at least $5 and both
\* safe quantities positive, generate_portfolio_signals returns a priority-1
\* spot leg and futures leg with opposite actions: buy spot and sell futures
\* for long_spot_short_futures, the reverse otherwise.
C33_ArbitragePair ==
    lastCall.op = "generate_portfolio_signals" =>
        \A i \in DOMAIN lastCall.args[1] :
            Qualifies(lastCall.args[1][i], lastCall.args[2], lastCall.args[3]) => HasPair(lastReturned, lastCall.args[1][i])

----------------------------------------------------------------------------
(* C34: the size the risk check allows and the size sent to the exchange.  *)

\* validate_trade accepted the signal with an adjusted_size below the size
\* asked for, and _execute_trade left an order on the exchange
AdjustedBelow ==
    /\ lastCall.op = "_execute_trade"
    /\ lastReturned.risk_check.adjusted_size.num < lastCall.args[1].size * lastReturned.risk_check.adjusted_size.den
    /\ lastReturned.placed # <<>>
\* C34: when validate_trade reports an adjusted_size smaller than the
\* requested size, the amount of the order _execute_trade places is at most
\* adjusted_size.
C34_AmountWithinAdjusted ==
    AdjustedBelow =>
        lastReturned.amount.num * lastReturned.risk_check.adjusted_size.den <= lastReturned.risk_check.adjusted_size.num * lastReturned.amount.den

----------------------------------------------------------------------------
(* C35: the validation of the signal in _execute_trade.                    *)

\* _execute_trade was called for a signal whose strength is below the noise
\* floor of 0.08
BelowNoiseFloor == lastCall.op = "_execute_trade" /\ Abs(lastCall.args[1].confidence) < 8
\* C35: a signal whose strength passed to validate_signal_strength is below
\* the noise floor is reported invalid by _execute_trade, and no order is
\* placed for it.
C35_NoiseRejected ==
    BelowNoiseFloor =>
        /\ ~lastReturned.validation.is_valid
        /\ ~HasId(lastReturned.result)
        /\ lastReturned.placed = <<>>

----------------------------------------------------------------------------
(* C36: the rebalancing trigger and last_rebalance.                        *)

\* generate_rebalancing_orders is invoked: check_rebalancing_needed has
\* returned true for the portfolio state of this cycle
GeneratesOrders == pc = "generate_orders" /\ lastCall'.op = "generate_rebalancing_orders"
\* C36: whenever check_rebalancing_needed returns true in a cycle and
\* generate_rebalancing_orders is then invoked on the same portfolio state,
\* last_rebalance is advanced to the time of that cycle, so that the
\* time-based condition does not hold again before a full rebalance
\* interval has elapsed.
C36_TriggerConsumed ==
    [][GeneratesOrders =>
          /\ last_rebalance' = now
          /\ ~(now - last_rebalance' > rebalance_interval_minutes)]_vars

----------------------------------------------------------------------------
(* C37: the initial purchase orders and the balances of their accounts.    *)

\* the notional of the orders of a market in 1/400 dollar: quarters of a
\* coin times cents
OrdersNotional(orders, exchange_type, current_prices) ==
    SumOver({i \in DOMAIN orders : orders[i].exchange_type = exchange_type},
            [i \in DOMAIN orders |-> orders[i].size * current_prices[orders[i].symbol]])
\* C37: for every portfolio state the total notional of the spot orders of
\* _generate_initial_purchase_orders does not exceed the spot balance, and
\* the notional of the futures order does not exceed the futures balance.
C37_OrdersAffordable ==
    lastCall.op = "_generate_initial_purchase_orders" =>
        /\ OrdersNotional(lastReturned, "spot", lastCall.args[1].current_prices) <= lastCall.args[1].spot_balance * 400
        /\ OrdersNotional(lastReturned, "futures", lastCall.args[1].current_prices) <= lastCall.args[1].futures_balance * 400

----------------------------------------------------------------------------
(* C38: the trailing stop of a position in profit, on both sides.          *)

\* an active stop-loss within 2% of the current price on the protecting side
StopWithinTwoPct(p) ==
    IF p.side = "buy" THEN p.stop_loss_price * 100 >= 98 * p.current_price
    ELSE /\ p.stop_loss_price > 0
         /\ p.stop_loss_price * 100 <= 102 * p.current_price
\* real_time_risk_monitoring observes the position of symbol s with an
\* unrealized profit above 5%
ObservesProfit(s) ==
    /\ lastCall'.op = "real_time_risk_monitoring"
    /\ positions[s] # NoPos
    /\ ProfitAbove(positions[s], 5)
\* C38: after real_time_risk_monitoring observed a position with unrealized
\* profit above 5%, the position has an active stop-loss within 2% of the
\* current price on the protecting side (buy: stop >= 0.98 x current; sell:
\* 0 < stop <= 1.02 x current), also when it was opened with the default
\* stop_loss_price of 0.
C38_TrailingBothSides ==
    [][\A s \in Symbols : ObservesProfit(s) /\ positions'[s] # NoPos => StopWithinTwoPct(positions'[s])]_vars

----------------------------------------------------------------------------
(* C39: the transfers of the cycle and of the funding monitor.             *)

\* the transfers in flight: the purchases a task has begun and not ended,
\* and the withdrawals Upbit has accepted and not settled
TransfersInFlight ==
    Cardinality({task \in FundingTasks : pcFunding[task].at = "purchasing"})
    + Cardinality({w \in DOMAIN withdrawals : withdrawals[w].state = "processing"})
====
